---- MODULE Spec2Model ----
(***************************************************************************)
(* A model of the unified MCP gateway (src/server/unified_mcp_v2.py).      *)
(*                                                                         *)
(* Several specifications share this module:                               *)
(*   Spec         the per-backend connection protocol: connection          *)
(*                instances, the reader task, send_server_request, the     *)
(*                handshake of start_server_connection and its retries;    *)
(*   SpecReader   one connection attempt with a backend that also writes   *)
(*                lines that are no JSON-RPC messages;                     *)
(*   SpecRouter   the front-facing request router (handle_request and the  *)
(*                two transports), the aggregation of the backends'        *)
(*                descriptors under prefixed names and the routing of      *)
(*                calls back to the backends;                              *)
(*   SpecShadow   the router with a backend whose prefixed names meet the  *)
(*                names the gateway defines itself;                        *)
(*   SpecHealth   the life of the registered connections: initialize, the  *)
(*                exit of backend processes, the health monitor and the    *)
(*                reconnect_server tool;                                   *)
(*   SpecShutdown SpecHealth followed by cleanup, once or twice;           *)
(*   SpecMonitor  two connected backends whose heartbeats age, the         *)
(*                monitoring cycle over the list of unhealthy connections  *)
(*                and reconnect_server.                                    *)
(* Python coroutines are cut at their suspension points: one action is the *)
(* code that runs between two awaits.                                      *)
(***************************************************************************)
EXTENDS Integers, Sequences, FiniteSets, TLC

(***************************************************************************)
(* Bounds of the model.                                                    *)
(***************************************************************************)
\* connection objects created for the backend during one run
MaxInst == 2
\* calls of send_server_request during one run, over all connection objects
\* (a handshake makes four: initialize, tools/list, resources/list, prompts/list)
MaxSends == 6

\* largest request id a connection can hand out within the bounds
MaxId == MaxSends

\* max_retries of start_server_connection
MaxRetries == 3

Inst == 1..MaxInst
Ids == 1..MaxId

VARIABLES
    \* ---- connection protocol (one backend name) ----
    nInst,            \* number of ServerConnection objects created so far
    proc,             \* conn.process: "none" | "alive" | "broken" | "exited"
    terminated,       \* conn.process.terminate() has been called
    reader,           \* conn.reader_task: "none" | "running" | "cancelled" | "ended"
    conn_initialized, \* conn.initialized
    request_id,       \* conn.request_id
    slot,             \* per request id: the call of send_server_request that carries it,
                      \* its future, and whether conn.pending_requests holds the id
    clash,            \* history: a registration replaced an entry of conn.pending_requests
    dup,              \* history: a request was written under an id already used on its connection
    inbox,            \* ids of the requests the backend process has read and not answered
    stdout,           \* lines the backend has written and the reader has not read
    request_count,    \* conn.request_count
    error_count,      \* conn.error_count
    last_error,       \* conn.last_error
    server_conn,      \* self.server_connections[name]: the registered instance, 0 if none
    start,            \* the running call of start_server_connection
    nSends            \* number of calls of send_server_request so far

connVars == <<nInst, proc, terminated, reader, conn_initialized, request_id,
              slot, clash, dup, inbox, stdout, request_count, error_count,
              last_error, server_conn, start, nSends>>


(***************************************************************************)
(* Helpers.                                                                *)
(***************************************************************************)
NoResult == [id |-> 0, src |-> 0, kind |-> "none"]

\* One request id of a connection. st is where the call of send_server_request
\* that carries the id stands ("free": no such call yet; "awaiting": suspended
\* on its future; "resolved": the future has a result, the coroutine has not
\* resumed; "ended": returned, raised or cancelled). inmap says whether
\* conn.pending_requests has an entry under the id, cancelled whether the
\* future of that entry is cancelled, res is the message the future holds.
FreeSlot == [st |-> "free", inmap |-> FALSE, cancelled |-> FALSE, res |-> NoResult]
Awaiting == [st |-> "awaiting", inmap |-> TRUE, cancelled |-> FALSE, res |-> NoResult]
EndedSlot == [st |-> "ended", inmap |-> FALSE, cancelled |-> FALSE, res |-> NoResult]

\* A faulty bookkeeping, to compare with: failures are not counted
UpdateStatsNoErrors(i, success) ==
    /\ request_count' = [request_count EXCEPT ![i] = @ + 1]
    /\ error_count' = error_count

\* ServerConnection.update_stats: request_count += 1, error_count += 1 on failure
UpdateStats(i, success) ==
    /\ request_count' = [request_count EXCEPT ![i] = @ + 1]
    /\ error_count' = [error_count EXCEPT ![i] = IF success THEN @ ELSE @ + 1]

(***************************************************************************)
(* The connection protocol.                                                *)
(***************************************************************************)
\* The running call of start_server_connection: attempt is the loop variable,
\* cur the conn object of the attempt, id the request it waits for, delay is
\* retry_delay, cause says why the call returned None without a retry
StartIdle == [pc |-> "idle", attempt |-> 0, cur |-> 0, id |-> 0, delay |-> 1, cause |-> "none"]

InitConn ==
    /\ nInst = 0
    /\ proc = [i \in Inst |-> "none"]
    /\ terminated = [i \in Inst |-> FALSE]
    /\ reader = [i \in Inst |-> "none"]
    /\ conn_initialized = [i \in Inst |-> FALSE]
    /\ request_id = [i \in Inst |-> 0]
    /\ slot = [i \in Inst |-> [k \in Ids |-> FreeSlot]]
    /\ clash = FALSE
    /\ dup = FALSE
    /\ inbox = [i \in Inst |-> {}]
    /\ stdout = [i \in Inst |-> <<>>]
    /\ request_count = [i \in Inst |-> 0]
    /\ error_count = [i \in Inst |-> 0]
    /\ last_error = [i \in Inst |-> "none"]
    /\ server_conn = 0
    /\ start = StartIdle
    /\ nSends = 0

\* A faulty numbering, to compare with: the counter stays at its first value
NextRequestIdStuck(i) == IF request_id[i] = 0 THEN 1 ELSE request_id[i]

\* conn.request_id += 1, then "id": conn.request_id
NextRequestId(i) == request_id[i] + 1

\* A faulty lookup, to compare with: the reader task resolves the pending map of
\* the newest connection object of the backend
ReaderConnNewest(i) == nInst

\* read_server_output(conn): the connection whose pending map the reader task of
\* instance i resolves is the conn object the task was created with
ReaderConn(i) == i

\* read_server_output: the key looked up in conn.pending_requests is message["id"]
ReaderKey(c, m) == m.id

\* conn.process.terminate() raises ProcessLookupError once the process has
\* exited and its pipes are closed (the subprocess transport has let go of it)
TerminateRaises(i) == proc[i] = "exited"

\* conn.process.terminate(): the process is signalled unless the call raises
Terminate(i) == terminated' = [terminated EXCEPT ![i] = @ \/ ~TerminateRaises(i)]

\* The synchronous prefix of send_server_request(conn, request) for a request with
\* id `id`: the returncode check, the registration of the future and the write.
\*   "dead"        the process has a returncode: return None before the try block
\*   "write_error" write/drain raised: the except Exception branch and finally
\*   "awaiting"    the line was written, the coroutine waits for its future
SendOutcomes(i) ==
    CASE proc[i] = "alive"  -> {"awaiting"}
      [] proc[i] = "broken" -> {"awaiting", "write_error"}
      [] OTHER              -> {"dead"}

SendPrefix(i, id, out) ==
    /\ out \in SendOutcomes(i)
    /\ nSends < MaxSends
    /\ nSends' = nSends + 1
    /\ IF out = "dead"
       THEN UNCHANGED <<slot, clash, dup, inbox, last_error, request_count, error_count>>
       ELSE /\ clash' = (clash \/ slot[i][id].inmap)
            /\ dup' = (dup \/ slot[i][id].st # "free")
            /\ IF out = "awaiting"
               THEN /\ slot' = [slot EXCEPT ![i][id] = Awaiting]
                    /\ inbox' = [inbox EXCEPT ![i] =
                                   IF proc[i] = "alive" THEN @ \cup {id} ELSE @]
                    /\ UNCHANGED <<last_error, request_count, error_count>>
               ELSE /\ slot' = [slot EXCEPT ![i][id] = [EndedSlot EXCEPT !.inmap = TRUE]]
                    /\ last_error' = [last_error EXCEPT ![i] = "send error"]
                    /\ UpdateStats(i, FALSE)
                    /\ UNCHANGED inbox

\* The tail of one failed attempt of start_server_connection: back off and try
\* again while attempts remain, else return None.
AfterFailedAttempt ==
    IF start.attempt < MaxRetries - 1
    THEN [start EXCEPT !.pc = "sleep", !.id = 0]
    ELSE [start EXCEPT !.pc = "return_none", !.id = 0]

NextStartPc(pc) ==
    CASE pc \in {"tools_send", "tools_wait"}         -> "resources_send"
      [] pc \in {"resources_send", "resources_wait"} -> "prompts_send"
      [] OTHER                                       -> "return_conn"

(***************************************************************************)
(* start_server_connection, one call at a time for the backend.            *)
(***************************************************************************)
\* initialize_proxy_servers: the gateway starts a connection to the backend
InitializeProxyServers ==
    /\ start.pc = "idle"
    /\ nInst < MaxInst
    /\ start' = [StartIdle EXCEPT !.pc = "spawn"]
    /\ UNCHANGED <<nInst, proc, terminated, reader, conn_initialized, request_id,
                   slot, clash, dup, inbox, stdout, request_count,
                   error_count, last_error, server_conn, nSends>>

\* reconnect_server and health_monitor_loop: the registered connection has its
\* reader task cancelled and its process signalled, then a new one is started
ReconnectServer ==
    /\ start.pc = "idle"
    /\ nInst < MaxInst
    /\ server_conn # 0 => ~TerminateRaises(server_conn)
    /\ IF server_conn # 0
       THEN /\ reader' = [reader EXCEPT ![server_conn] =
                             IF @ = "running" THEN "cancelled" ELSE @]
            /\ stdout' = [stdout EXCEPT ![server_conn] = <<>>]
            /\ Terminate(server_conn)
       ELSE UNCHANGED <<reader, terminated, stdout>>
    /\ start' = [StartIdle EXCEPT !.pc = "spawn"]
    /\ UNCHANGED <<nInst, proc, conn_initialized, request_id,
                   slot, clash, dup, inbox, request_count,
                   error_count, last_error, server_conn, nSends>>

\* reconnect_server and health_monitor_loop when the process of the registered
\* connection has exited: the reader task is cancelled, terminate() raises, and
\* the exception leaves the caller before start_server_connection is called
ReconnectRaises ==
    /\ start.pc = "idle"
    /\ server_conn # 0
    /\ TerminateRaises(server_conn)
    /\ reader' = [reader EXCEPT ![server_conn] = IF @ = "running" THEN "cancelled" ELSE @]
    /\ stdout' = [stdout EXCEPT ![server_conn] = <<>>]
    /\ UNCHANGED <<nInst, proc, terminated, conn_initialized, request_id,
                   slot, clash, dup, inbox, request_count,
                   error_count, last_error, server_conn, start, nSends>>

\* create_subprocess_exec succeeded: the conn object has a process, the reader
\* task is created and conn.request_id += 1 numbers the initialize request
SpawnOk ==
    /\ start.pc = "spawn"
    /\ nInst < MaxInst
    /\ LET i == nInst + 1 IN
       /\ nInst' = i
       /\ proc' = [proc EXCEPT ![i] = "alive"]
       /\ reader' = [reader EXCEPT ![i] = "running"]
       /\ request_id' = [request_id EXCEPT ![i] = NextRequestId(i)]
       /\ start' = [start EXCEPT !.pc = "init_send", !.cur = i]
    /\ UNCHANGED <<terminated, conn_initialized, slot, clash, dup, inbox,
                   stdout, request_count, error_count, last_error, server_conn, nSends>>

\* the spawn timed out (10 s) or raised another exception: retried
SpawnFails ==
    /\ start.pc = "spawn"
    /\ start' = AfterFailedAttempt
    /\ UNCHANGED <<nInst, proc, terminated, reader, conn_initialized, request_id,
                   slot, clash, dup, inbox, stdout, request_count,
                   error_count, last_error, server_conn, nSends>>

\* A faulty handling, to compare with: the error is retried like any other
SpawnConfigErrorRetried ==
    /\ start.pc = "spawn"
    /\ start' = [AfterFailedAttempt EXCEPT !.cause = "config"]
    /\ UNCHANGED <<nInst, proc, terminated, reader, conn_initialized, request_id,
                   slot, clash, dup, inbox, stdout, request_count,
                   error_count, last_error, server_conn, nSends>>

\* FileNotFoundError or PermissionError: return None without a retry
SpawnConfigError ==
    /\ start.pc = "spawn"
    /\ start' = [start EXCEPT !.pc = "return_none", !.cause = "config"]
    /\ UNCHANGED <<nInst, proc, terminated, reader, conn_initialized, request_id,
                   slot, clash, dup, inbox, stdout, request_count,
                   error_count, last_error, server_conn, nSends>>

\* "if not command: return None": the configuration has no command; the test
\* comes before the spawn of each attempt and the configuration does not change
\* during the call, so it shows at the first
CommandMissing ==
    /\ start.pc = "spawn"
    /\ start.attempt = 0
    /\ start' = [start EXCEPT !.pc = "return_none", !.cause = "no_command"]
    /\ UNCHANGED <<nInst, proc, terminated, reader, conn_initialized, request_id,
                   slot, clash, dup, inbox, stdout, request_count,
                   error_count, last_error, server_conn, nSends>>

\* asyncio.sleep(retry_delay) is over, retry_delay *= 2: the next attempt
BackoffDone ==
    /\ start.pc = "sleep"
    /\ start' = [start EXCEPT !.pc = "spawn", !.attempt = @ + 1, !.cur = 0, !.delay = 2 * @]
    /\ UNCHANGED <<nInst, proc, terminated, reader, conn_initialized, request_id,
                   slot, clash, dup, inbox, stdout, request_count,
                   error_count, last_error, server_conn, nSends>>

\* wait_for(send_server_request(conn, init_request), 15.0) starts the send
InitSend(out) ==
    /\ start.pc = "init_send"
    /\ LET i == start.cur IN
       /\ SendPrefix(i, request_id[i], out)
       /\ IF out = "awaiting"
          THEN /\ start' = [start EXCEPT !.pc = "init_wait", !.id = request_id[i]]
               /\ UNCHANGED terminated
          ELSE \* response is None: "Invalid response", terminate, retry
               /\ start' = AfterFailedAttempt
               /\ Terminate(i)
    /\ UNCHANGED <<nInst, proc, reader, conn_initialized, request_id, stdout,
                   server_conn>>

\* A faulty handshake, to compare with: any reply to initialize is a success
InitResolvedAnyReply ==
    /\ start.pc = "init_wait"
    /\ LET i == start.cur
           s == slot[i][start.id] IN
       /\ s.st = "resolved"
       /\ slot' = [slot EXCEPT ![i][start.id] = EndedSlot]
       /\ UpdateStats(i, TRUE)
       /\ conn_initialized' = [conn_initialized EXCEPT ![i] = TRUE]
       /\ start' = [start EXCEPT !.pc = "tools_send", !.id = 0]
    /\ UNCHANGED <<nInst, proc, terminated, reader, request_id, clash, dup, inbox, stdout,
                   last_error, server_conn, nSends>>

\* the initialize reply arrived: send_server_request returns it (finally:
\* update_stats); with a result the connection is initialized and the
\* initialized notification is written, else the attempt failed
InitResolved ==
    /\ start.pc = "init_wait"
    /\ LET i == start.cur
           s == slot[i][start.id] IN
       /\ s.st = "resolved"
       /\ slot' = [slot EXCEPT ![i][start.id] = EndedSlot]
       /\ UpdateStats(i, TRUE)
       /\ IF s.res.kind = "result"
          THEN /\ conn_initialized' = [conn_initialized EXCEPT ![i] = TRUE]
               /\ start' = [start EXCEPT !.pc = "tools_send", !.id = 0]
               /\ UNCHANGED terminated
          ELSE /\ start' = AfterFailedAttempt
               /\ Terminate(i)
               /\ UNCHANGED conn_initialized
    /\ UNCHANGED <<nInst, proc, reader, request_id, clash, dup, inbox, stdout,
                   last_error, server_conn, nSends>>

\* The 15 s of the enclosing wait_for are over before the reply: the send
\* coroutine is cancelled at its await (CancelledError passes both except
\* clauses, finally runs update_stats), start_server_connection catches
\* TimeoutError and terminates the process. The entry stays in the map. When
\* terminate() raises, the exception leaves the except clause and the call.
HandshakeTimeout ==
    /\ start.pc = "init_wait"
    /\ LET i == start.cur
           s == slot[i][start.id] IN
       /\ s.st = "awaiting"
       /\ slot' = [slot EXCEPT ![i][start.id] =
                      [EndedSlot EXCEPT !.inmap = s.inmap, !.cancelled = s.inmap]]
       /\ UpdateStats(i, FALSE)
       /\ Terminate(i)
       /\ start' = IF TerminateRaises(i)
                   THEN [start EXCEPT !.pc = "raised", !.id = 0]
                   ELSE AfterFailedAttempt
    /\ UNCHANGED <<nInst, proc, reader, conn_initialized, request_id, clash, dup,
                   inbox, stdout, last_error, server_conn, nSends>>

\* fetch_server_capabilities: conn.request_id += 1 and the send of tools/list,
\* resources/list or prompts/list
FetchSend(out) ==
    /\ start.pc \in {"tools_send", "resources_send", "prompts_send"}
    /\ LET i == start.cur
           id == NextRequestId(i) IN
       /\ id <= MaxId
       /\ request_id' = [request_id EXCEPT ![i] = id]
       /\ SendPrefix(i, id, out)
       /\ start' = IF out = "awaiting"
                   THEN [start EXCEPT !.pc = CASE start.pc = "tools_send" -> "tools_wait"
                                              [] start.pc = "resources_send" -> "resources_wait"
                                              [] OTHER -> "prompts_wait",
                                      !.id = id]
                   ELSE [start EXCEPT !.pc = NextStartPc(start.pc), !.id = 0]
    /\ UNCHANGED <<nInst, proc, terminated, reader, conn_initialized, stdout,
                   server_conn>>

\* start_server_connection returns or raises: the caller stores the connection
\* (self.server_connections[name] = conn) when one is returned
StartReturn ==
    /\ start.pc \in {"return_conn", "return_none", "raised"}
    /\ server_conn' = IF start.pc = "return_conn" THEN start.cur ELSE server_conn
    /\ start' = StartIdle
    /\ UNCHANGED <<nInst, proc, terminated, reader, conn_initialized, request_id,
                   slot, clash, dup, inbox, stdout, request_count,
                   error_count, last_error, nSends>>

(***************************************************************************)
(* send_server_request after its first suspension, and the proxied calls.  *)
(***************************************************************************)
\* the send the running start_server_connection waits for
IsStartSend(i, id) == start.cur = i /\ start.id = id /\ id # 0
IsInitSend(i, id) == IsStartSend(i, id) /\ start.pc = "init_wait"

\* fetch_server_capabilities goes on with the next list once its send returned
StartAfterSend(i, id) ==
    IF IsStartSend(i, id)
    THEN [start EXCEPT !.pc = NextStartPc(start.pc), !.id = 0]
    ELSE start

\* handle_tools_call / handle_resources_read / handle_prompts_get: a front-end
\* handler found the registered connection, conn.request_id += 1, and calls
\* send_server_request, which runs to its first suspension
ProxySend(out) ==
    /\ server_conn # 0
    /\ LET i == server_conn
           id == NextRequestId(i) IN
       /\ id <= MaxId
       /\ request_id' = [request_id EXCEPT ![i] = id]
       /\ SendPrefix(i, id, out)
    /\ UNCHANGED <<nInst, proc, terminated, reader, conn_initialized, stdout,
                   server_conn, start>>

\* response = await asyncio.wait_for(future, 30.0) returns the reply;
\* success = True; finally: update_stats
SendResume(i, id) ==
    /\ slot[i][id].st = "resolved"
    /\ ~IsInitSend(i, id)
    /\ slot' = [slot EXCEPT ![i][id] = EndedSlot]
    /\ UpdateStats(i, TRUE)
    /\ start' = StartAfterSend(i, id)
    /\ UNCHANGED <<nInst, proc, terminated, reader, conn_initialized, request_id,
                   clash, dup, inbox, stdout, last_error, server_conn, nSends>>

\* A faulty timeout, to compare with: the whole pending map is cleared
SendTimeoutClearsMap(i, id) ==
    /\ slot[i][id].st = "awaiting"
    /\ ~IsInitSend(i, id)
    /\ slot' = [slot EXCEPT ![i] =
                   [k \in Ids |-> IF k = id THEN EndedSlot ELSE [slot[i][k] EXCEPT !.inmap = FALSE]]]
    /\ last_error' = [last_error EXCEPT ![i] = "Request timeout"]
    /\ UpdateStats(i, FALSE)
    /\ start' = StartAfterSend(i, id)
    /\ UNCHANGED <<nInst, proc, terminated, reader, conn_initialized, request_id,
                   clash, dup, inbox, stdout, server_conn, nSends>>

\* A faulty timeout, to compare with: the connection is given up like a
\* handshake that timed out
SendTimeoutGivesUp(i, id) ==
    /\ slot[i][id].st = "awaiting"
    /\ ~IsInitSend(i, id)
    /\ slot' = [slot EXCEPT ![i][id] = EndedSlot]
    /\ last_error' = [last_error EXCEPT ![i] = "Request timeout"]
    /\ UpdateStats(i, FALSE)
    /\ start' = StartAfterSend(i, id)
    /\ terminated' = [terminated EXCEPT ![i] = TRUE]
    /\ conn_initialized' = [conn_initialized EXCEPT ![i] = FALSE]
    /\ UNCHANGED <<nInst, proc, reader, request_id,
                   clash, dup, inbox, stdout, server_conn, nSends>>

\* except asyncio.TimeoutError: last_error, the entry under request_id is
\* popped if there is one, return None; finally: update_stats
SendTimeout(i, id) ==
    /\ slot[i][id].st = "awaiting"
    /\ ~IsInitSend(i, id)
    /\ slot' = [slot EXCEPT ![i][id] = EndedSlot]
    /\ last_error' = [last_error EXCEPT ![i] = "Request timeout"]
    /\ UpdateStats(i, FALSE)
    /\ start' = StartAfterSend(i, id)
    /\ UNCHANGED <<nInst, proc, terminated, reader, conn_initialized, request_id,
                   clash, dup, inbox, stdout, server_conn, nSends>>

(***************************************************************************)
(* The reader task and the backend process.                                *)
(***************************************************************************)
\* Lines of a backend that are no JSON-RPC message: text that is not JSON
\* ("bad_json"), bytes that are not UTF-8 ("bad_text"), the JSON values [1, 2]
\* ("array") and 5 or null ("number"), and an object whose id is a list or an
\* object ("bad_id")
MalformedKinds == {"bad_json", "bad_text", "array", "number", "bad_id"}

\* read_server_output: only json.JSONDecodeError is caught inside the loop.
\* line.decode() raises UnicodeDecodeError, "id" in 5 and "id" in None raise
\* TypeError, and so does an unhashable id looked up in the pending map: these
\* reach the "except Exception" around the loop and the task ends
LineRaises(m) == m.kind \in {"bad_text", "number", "bad_id"}

\* read_server_output: one line is read; a message whose id is a key of the
\* pending map pops the future and resolves it unless it is cancelled
ReaderRead(i) ==
    /\ reader[i] = "running"
    /\ stdout[i] # <<>>
    /\ LET m == Head(stdout[i])
           c == ReaderConn(i)
           k == IF c \in Inst THEN ReaderKey(c, m) ELSE 0
           hit == k \in Ids /\ slot[c][k].inmap IN
       /\ stdout' = [stdout EXCEPT ![i] = Tail(@)]
       /\ IF hit
          THEN slot' = [slot EXCEPT ![c][k] =
                          IF @.st = "awaiting" /\ ~@.cancelled
                          THEN [@ EXCEPT !.st = "resolved", !.inmap = FALSE, !.res = m]
                          ELSE [@ EXCEPT !.inmap = FALSE, !.cancelled = FALSE]]
          ELSE UNCHANGED slot
       /\ reader' = IF LineRaises(m) THEN [reader EXCEPT ![i] = "ended"] ELSE reader
    /\ UNCHANGED <<nInst, proc, terminated, conn_initialized, request_id,
                   clash, dup, inbox, request_count, error_count, last_error,
                   server_conn, start, nSends>>

\* read_server_output: readline returns b"" at end of file and the task ends
ReaderEof(i) ==
    /\ reader[i] = "running"
    /\ stdout[i] = <<>>
    /\ proc[i] \in {"broken", "exited"}
    /\ reader' = [reader EXCEPT ![i] = "ended"]
    /\ UNCHANGED <<nInst, proc, terminated, conn_initialized, request_id,
                   slot, clash, dup, inbox, stdout, request_count,
                   error_count, last_error, server_conn, start, nSends>>

\* the backend answers one of the requests it has read, in any order, under the
\* id of the request (a line no reader task will read is not kept). Only the
\* reply to initialize (id 1) is inspected for "result", so only that reply is
\* given the choice of being an error.
BackendReply(i, id, kind) ==
    /\ proc[i] = "alive"
    /\ id \in inbox[i]
    /\ (kind = "error" => id = 1)
    /\ inbox' = [inbox EXCEPT ![i] = @ \ {id}]
    /\ stdout' = [stdout EXCEPT ![i] =
                     IF reader[i] = "running"
                     THEN Append(@, [id |-> id, src |-> i, kind |-> kind])
                     ELSE @]
    /\ UNCHANGED <<nInst, proc, terminated, reader, conn_initialized, request_id,
                   slot, clash, dup, request_count, error_count, last_error,
                   server_conn, start, nSends>>

\* the backend writes a line that is no message (into an empty pipe, so one
\* such line at a time is waiting to be read)
BackendGarbage(i, kind) ==
    /\ proc[i] = "alive"
    /\ reader[i] = "running"
    /\ kind \in MalformedKinds
    /\ stdout[i] = <<>>
    /\ stdout' = [stdout EXCEPT ![i] = Append(@, [id |-> 0, src |-> i, kind |-> kind])]
    /\ UNCHANGED <<nInst, proc, terminated, reader, conn_initialized, request_id,
                   slot, clash, dup, inbox, request_count, error_count, last_error,
                   server_conn, start, nSends>>

\* the backend process dies (on the signal or by itself): its pipes close
ProcessDies(i) ==
    /\ proc[i] = "alive"
    /\ proc' = [proc EXCEPT ![i] = "broken"]
    /\ inbox' = [inbox EXCEPT ![i] = {}]
    /\ UNCHANGED <<nInst, terminated, reader, conn_initialized, request_id,
                   slot, clash, dup, stdout, request_count, error_count,
                   last_error, server_conn, start, nSends>>

\* the event loop reaps the dead process: process.returncode is set
ProcessReaped(i) ==
    /\ proc[i] = "broken"
    /\ proc' = [proc EXCEPT ![i] = "exited"]
    /\ UNCHANGED <<nInst, terminated, reader, conn_initialized, request_id,
                   slot, clash, dup, inbox, stdout, request_count,
                   error_count, last_error, server_conn, start, nSends>>


(***************************************************************************)
(* The front-facing router. Names and URIs are sequences of symbols, one    *)
(* symbol per character, so that prefixing, startswith and str.replace are  *)
(* computed as Python computes them. A word of a name that no prefix used   *)
(* here cuts is written as one symbol.                                      *)
(***************************************************************************)
\* JsonRpcError
PARSE_ERROR == -32700
INVALID_REQUEST == -32600
METHOD_NOT_FOUND == -32601
INTERNAL_ERROR == -32603

\* requests the HTTP transport handles at the same time
MaxConc == 2
\* connection attempts begun during one run: one per configured backend by an
\* initialize, one by a reconnect_server, one by a monitoring cycle
MaxStarts == 2

\* str.startswith
StartsWith(s, p) == Len(p) <= Len(s) /\ SubSeq(s, 1, Len(p)) = p

\* str.replace(old, ""): every occurrence of old is removed, left to right
RECURSIVE Replace(_, _)
Replace(s, old) ==
    IF s = <<>> THEN <<>>
    ELSE IF StartsWith(s, old)
         THEN Replace(SubSeq(s, Len(old) + 1, Len(s)), old)
         ELSE <<Head(s)>> \o Replace(Tail(s), old)

\* f"{server_name}_" and f"{server_name}://"
ToolPrefix(c) == c \o <<"_">>
UriPrefix(c) == c \o <<":", "/", "/">>

\* fetch_server_capabilities: the exposed identity of a descriptor
ExposedName(c, x) == ToolPrefix(c) \o x
ExposedUri(c, u) == UriPrefix(c) \o u
ExposedNames(c, xs) == [k \in 1..Len(xs) |-> ExposedName(c, xs[k])]
ExposedUris(c, us) == [k \in 1..Len(us) |-> ExposedUri(c, us[k])]

InSeq(x, xs) == \E k \in 1..Len(xs) : xs[k] = x
Range(xs) == {xs[k] : k \in 1..Len(xs)}

\* load_mcp_config: the descriptors the gateway defines itself
PureBuiltinTools == <<
    <<"health", "_", "check">>, <<"list_connected_servers">>,
    <<"server_capabilities">>, <<"server_statistics">> >>
ReconnectTool == <<"reconnect", "_", "server">>
BuiltinTools == PureBuiltinTools \o <<ReconnectTool>>
BuiltinResources == << <<"config", ":", "/", "/", "mcp-servers">> >>
BuiltinPrompts == << <<"analyze", "_", "error">> >>

\* The configurations and backends the runs are drawn from: backend names "g"
\* and "g_g", descriptors "s" and "g_s", URIs "s" and "g://s".
NoCatalog == [tools |-> <<>>, resources |-> <<>>, prompts |-> <<>>]
PlainCatalog ==
    [tools |-> << <<"s">> >>, resources |-> << <<"s">> >>, prompts |-> << <<"s">> >>]
NestedCatalog ==
    [tools     |-> << <<"s">>, <<"g", "_", "s">> >>,
     resources |-> << <<"s">>, <<"g", ":", "/", "/", "s">> >>,
     prompts   |-> << <<"s">>, <<"g", "_", "s">> >>]
Catalogs == {PlainCatalog, NestedCatalog}
Rosters == { <<>>, << <<"g">> >>, << <<"g">>, <<"g", "_", "g">> >> }
\* a name no backend advertises and the gateway does not define
Unlisted == <<"x">>

\* Configurations of one backend whose name is the first word of a name the
\* gateway defines, with descriptors named by the rest of it: "health" exposes
\* the tool "check" as health_check, "reconnect" the tool "server" as
\* reconnect_server, "config" the resource "mcp-servers" as
\* config://mcp-servers, "analyze" the prompt "error" as analyze_error.
ShadowCatalog ==
    [tools |-> << <<"check">>, <<"server">> >>, resources |-> << <<"mcp-servers">> >>,
     prompts |-> << <<"error">> >>]
ShadowRosters ==
    { << <<"health">> >>, << <<"reconnect">> >>, << <<"config">> >>, << <<"analyze">> >> }

Methods == {"initialize", "initialized", "tools/list", "tools/call",
            "resources/list", "resources/read", "prompts/list", "prompts/get",
            "unknown/method"}
ListMethods == {"tools/list", "resources/list", "prompts/list"}
CallMethods == {"tools/call", "resources/read", "prompts/get"}

VARIABLES
    \* ---- router ----
    transport,            \* self.transport: "stdio" | "http"
    config_loaded,        \* load_mcp_config read .mcp.json
    mcp_servers,          \* self.mcp_servers: the configured names, in order
    catalog,              \* per configured backend: the descriptors its process advertises
    initialized,          \* self.initialized
    server_connections,   \* self.server_connections: the connections, in insertion order
    tools,                \* self.tools (names)
    resources,            \* self.resources (URIs)
    prompts,              \* self.prompts (names)
    health_check_task,    \* self.health_check_task is set
    monitor_tasks,        \* health_monitor_loop tasks created so far
    handler,              \* the suspended calls of handle_request, and the health monitor (slot 0)
    last,                 \* the exchange the last step completed, if it completed one: the
                          \* message and what was written back
    nStarts,              \* connection attempts begun so far (see MaxStarts)
    initializeReceived,   \* history: handle_request got an initialize request
    initializedProcessed  \* history: handle_initialized ran

routerVars == <<transport, config_loaded, mcp_servers, catalog, initialized,
                server_connections, tools, resources, prompts, health_check_task,
                monitor_tasks,
                handler, last, nStarts, initializeReceived, initializedProcessed>>

VARIABLE
    cleanup               \* the call of cleanup, if any: its position, and what it did

\* calls of cleanup during one run
MaxCleanups == 2

\* cleanup was not called (runs counts the calls, previous is what the call
\* before the current one closed)
CleanupOff ==
    [pc |-> "off", at |-> 0, monitor |-> "none", busy |-> FALSE, registered |-> <<>>,
     closed |-> <<>>, runs |-> 0, previous |-> <<>>]

frontVars == <<routerVars, cleanup>>
backVars == <<connVars, cleanup>>

vars == <<connVars, routerVars, cleanup>>

Slots == 0..MaxConc
ClientSlots == 1..MaxConc

NoMsg == [form |-> "none", method |-> "", id |-> 0, name |-> <<>>, arg |-> <<>>]
NoFwd == [conn |-> <<>>, method |-> "", name |-> <<>>]
NoGhost == [ready0 |-> FALSE, init0 |-> FALSE, owners |-> {}]
NoReply == [kind |-> "none", id |-> 0, code |-> 0, payload |-> <<>>]
NoExchange == [msg |-> NoMsg, reply |-> NoReply, fwd |-> NoFwd, ghost |-> NoGhost]
IdleHandler == [pc |-> "idle", msg |-> NoMsg, tasks |-> <<>>, fwd |-> NoFwd, ghost |-> NoGhost]

\* ServerConnection(name=...): tools, resources and prompts default to []; adv
\* records, per category, the original descriptors the lists were built from;
\* process is the state of conn.process once start_server_connection returned
\* the connection ("alive"; "terminated": the reader task was cancelled and
\* terminate() called by a reconnection; "exited": returncode set, pipes closed);
\* fresh tells whether last_heartbeat, 0.0 at first, is less than 60 s old
NewConn(name) ==
    [name |-> name, tools |-> <<>>, resources |-> <<>>, prompts |-> <<>>, adv |-> NoCatalog,
     process |-> "alive", fresh |-> FALSE]

\* ServerConnection.is_healthy: the process has not exited, the connection is
\* initialized (a registered one is) and the heartbeat is less than 60 s old
IsHealthy(c) == c.process # "exited" /\ c.fresh

\* old_conn.process.terminate() raises ProcessLookupError on an exited process
TerminateRaisesOn(c) == c.process = "exited"

\* old_conn.reader_task.cancel() and old_conn.process.terminate() for the
\* connection registered under a name
Teardown(reg, name) ==
    [j \in 1..Len(reg) |->
        IF reg[j].name = name THEN [reg[j] EXCEPT !.process = "terminated"] ELSE reg[j]]

\* the registered connections of a name (one at most: the registry is a dict)
Registered(name) == {j \in 1..Len(server_connections) : server_connections[j].name = name}

\* The configurations of the runs. Over HTTP, where requests overlap, there is
\* at most one backend and it advertises the plain catalog; under stdio there
\* are up to two and the first may advertise the nested catalog.
RostersFor(tr, loaded) ==
    IF ~loaded THEN {<<>>}
    ELSE IF tr = "http" THEN {r \in Rosters : Len(r) <= 1}
    ELSE Rosters

CatalogsFor(tr, servers) ==
    {c \in [1..Len(servers) -> Catalogs] :
        \A k \in 1..Len(servers) : c[k] = NestedCatalog => (tr = "stdio" /\ k = 1)}

\* MCPServerV2.__init__ and load_mcp_config: without a readable .mcp.json the
\* configuration is empty and no built-in descriptor is installed
InitRouter ==
    /\ transport \in {"stdio", "http"}
    /\ config_loaded \in BOOLEAN
    /\ mcp_servers \in RostersFor(transport, config_loaded)
    /\ catalog \in CatalogsFor(transport, mcp_servers)
    /\ initialized = FALSE
    /\ server_connections = <<>>
    /\ tools = IF config_loaded THEN BuiltinTools ELSE <<>>
    /\ resources = IF config_loaded THEN BuiltinResources ELSE <<>>
    /\ prompts = IF config_loaded THEN BuiltinPrompts ELSE <<>>
    /\ health_check_task = FALSE
    /\ monitor_tasks = 0
    /\ handler = [h \in Slots |-> IdleHandler]
    /\ last = NoExchange
    /\ nStarts = 0
    /\ initializeReceived = FALSE
    /\ initializedProcessed = FALSE

\* the messages a client may write into slot h: a line that is not JSON, a JSON
\* object without the "jsonrpc" member, or a request or notification of any
\* method; a call names a listed descriptor, one the gateway defines, or an
\* unlisted one (health_check stands for the built-in tools that only report)
NamesFor(mt) ==
    CASE mt = "tools/call" ->
            (Range(tools) \ Range(PureBuiltinTools))
            \cup {PureBuiltinTools[1], ReconnectTool, Unlisted}
      [] mt = "resources/read" ->
            Range(resources) \cup Range(BuiltinResources) \cup {Unlisted}
            \cup {ExposedUri(c, Unlisted) : c \in Range(mcp_servers)}
      [] mt = "prompts/get" -> Range(prompts) \cup Range(BuiltinPrompts) \cup {Unlisted}
      [] OTHER -> {<<>>}

ArgsFor(mt, n) ==
    IF mt = "tools/call" /\ n = ReconnectTool
    THEN Range(mcp_servers) \cup {<<>>, Unlisted}
    ELSE {<<>>}

ClientMessages(h) ==
    {[form |-> "bad_json", method |-> "", id |-> 0, name |-> <<>>, arg |-> <<>>]}
    \cup {[form |-> "no_jsonrpc", method |-> "tools/list", id |-> i, name |-> <<>>, arg |-> <<>>] :
            i \in {0, h}}
    \cup UNION {UNION {
            {[form |-> "ok", method |-> mt, id |-> i, name |-> n, arg |-> a] :
                i \in {0, h}, a \in ArgsFor(mt, n)}
            : n \in NamesFor(mt)} : mt \in Methods}

\* the replies handle_request builds: kind "result" is an object with the
\* member "result", a code other than 0 is the member "error" with that code
ResultReply(id, payload) == [kind |-> "result", id |-> id, code |-> 0, payload |-> payload]
\* A faulty reply, to compare with: the error is put next to a result
ErrorReplyWithResult(id, code) == [kind |-> "result", id |-> id, code |-> code, payload |-> <<>>]
ErrorReply(id, code) == [kind |-> "error", id |-> id, code |-> code, payload |-> <<>>]
\* "if request_id is not None": a result is returned to a request only
Respond(m, payload) == IF m.id # 0 THEN ResultReply(m.id, payload) ELSE NoReply
\* except Exception: an internal error is returned to a request only
Raise(m) == IF m.id # 0 THEN ErrorReply(m.id, INTERNAL_ERROR) ELSE NoReply

\* the routing loops ended without a return: the exception names what was
\* asked for, "Tool not found: {tool_name}", "Resource not found: {uri}" or
\* "Prompt not found: {name}", and str(e) is the message of the error
NotFoundText(mt) ==
    CASE mt = "tools/call" -> "Tool not found: "
      [] mt = "resources/read" -> "Resource not found: "
      [] OTHER -> "Prompt not found: "

NotFound(m) ==
    IF m.id # 0
    THEN [ErrorReply(m.id, INTERNAL_ERROR) EXCEPT
             !.payload = << <<NotFoundText(m.method)>> \o m.name >>]
    ELSE NoReply

\* A handler that never asks, to compare with
NotReadyNever(mt) == FALSE

\* "if not self.initialized: raise Exception(...)" at the head of the six handlers
NotReady(mt) == mt \in ListMethods \cup CallMethods /\ ~initialized

\* A directory without the gateway's own descriptors, to compare with
AggregateOfConnections(mt) ==
    CASE mt = "tools/list" -> SubSeq(tools, Len(BuiltinTools) + 1, Len(tools))
      [] mt = "resources/list" -> SubSeq(resources, Len(BuiltinResources) + 1, Len(resources))
      [] OTHER -> SubSeq(prompts, Len(BuiltinPrompts) + 1, Len(prompts))

\* handle_tools_list, handle_resources_list, handle_prompts_list: the list returned
Aggregate(mt) ==
    CASE mt = "tools/list" -> tools
      [] mt = "resources/list" -> resources
      [] OTHER -> prompts

\* the tests of the routing loops: handle_tools_call and handle_prompts_get
\* look the name up in conn.tools / conn.prompts, handle_resources_read tests
\* the URI against the prefix of the connection
Matches(mt, n, c) ==
    CASE mt = "tools/call" -> InSeq(n, c.tools)
      [] mt = "resources/read" -> StartsWith(n, UriPrefix(c.name))
      [] OTHER -> InSeq(n, c.prompts)

\* the routing loops: the first connection of the registry, in insertion
\* order, that passes the test (0: none)
Route(mt, n) ==
    LET js == {j \in 1..Len(server_connections) : Matches(mt, n, server_connections[j])}
    IN IF js = {} THEN 0 ELSE CHOOSE j \in js : \A k \in js : j <= k

\* the request proxied to the connection: the prefix is removed with str.replace
Forwarded(mt, n, c) ==
    [conn |-> c.name, method |-> mt,
     name |-> Replace(n, IF mt = "resources/read" THEN UriPrefix(c.name) ELSE ToolPrefix(c.name))]

\* json.dumps of a small number
DecimalText(n) == <<"0", "1", "2", "3", "4", "5", "6", "7", "8", "9">>[n + 1]

\* A faulty report, to compare with: the configured backends are counted
HealthReportOfConfiguration(reg) ==
    << <<"connected_servers", DecimalText(Len(mcp_servers))>> >>

\* health_check: "connected_servers": len(self.server_connections)
HealthReport(reg) ==
    << <<"connected_servers", DecimalText(Len(reg))>> >>

\* what the gateway answers itself: the report of health_check; the text of
\* config://mcp-servers and of analyze_error is left out
BuiltinResult(mt, n) ==
    IF mt = "tools/call" /\ n = PureBuiltinTools[1]
    THEN HealthReport(server_connections)
    ELSE <<>>

\* A faulty router, to compare with: no name is looked up among the gateway's own
IsBuiltinNever(mt, n) == FALSE

\* the names a handler answers itself
IsBuiltin(mt, n) ==
    CASE mt = "tools/call" -> InSeq(n, PureBuiltinTools)
      [] mt = "resources/read" -> InSeq(n, BuiltinResources)
      [] OTHER -> InSeq(n, BuiltinPrompts)

\* history: the (connection, original descriptor) pairs of the registry whose
\* exposed identity is the name a call asks for
AdvOf(c, mt) ==
    CASE mt = "tools/call" -> c.adv.tools
      [] mt = "resources/read" -> c.adv.resources
      [] OTHER -> c.adv.prompts

ExposedAs(mt, cname, x) == IF mt = "resources/read" THEN ExposedUri(cname, x) ELSE ExposedName(cname, x)

Owners(m) ==
    IF m.method \notin CallMethods THEN {}
    ELSE UNION {
            {[conn |-> server_connections[j].name, method |-> m.method, name |-> x] :
                x \in {y \in Range(AdvOf(server_connections[j], m.method)) :
                         ExposedAs(m.method, server_connections[j].name, y) = m.name}}
            : j \in 1..Len(server_connections)}

Ghost(m) == [ready0 |-> initialized, init0 |-> initializeReceived, owners |-> Owners(m)]

\* self.server_connections[conn.name] = conn: a dict keeps the position of a key
Store(reg, conn) ==
    IF \E j \in 1..Len(reg) : reg[j].name = conn.name
    THEN [j \in 1..Len(reg) |-> IF reg[j].name = conn.name THEN conn ELSE reg[j]]
    ELSE Append(reg, conn)

\* A faulty gather, to compare with: the first failure ends the storing
RECURSIVE StoreAllUntilFailure(_, _, _)
StoreAllUntilFailure(reg, tasks, k) ==
    IF k > Len(tasks) \/ tasks[k].stage # "ok" THEN reg
    ELSE StoreAllUntilFailure(Store(reg, tasks[k].conn), tasks, k + 1)

\* initialize_proxy_servers: the results of gather are stored in the order of
\* the configuration
RECURSIVE StoreAll(_, _, _)
StoreAll(reg, tasks, k) ==
    IF k > Len(tasks) THEN reg
    ELSE StoreAll(IF tasks[k].stage = "ok" THEN Store(reg, tasks[k].conn) ELSE reg, tasks, k + 1)

(***************************************************************************)
(* handle_request and the two transports. A call of handle_request that    *)
(* returns without waiting for a backend is one step; one that waits is    *)
(* kept in its slot until what it waits for is over.                       *)
(***************************************************************************)
cfgVars == <<transport, config_loaded, mcp_servers, catalog>>
dirVars == <<server_connections, tools, resources, prompts>>
flagVars == <<initialized, initializeReceived, initializedProcessed>>
monitorVars == <<health_check_task, monitor_tasks>>

\* A faulty line loop, to compare with: a line is read while a request waits
AcceptsPipelined(h, m) ==
    /\ h \in ClientSlots
    /\ handler[h].pc = "idle"
    /\ \A k \in ClientSlots : k < h => handler[k].pc # "idle"

\* run_stdio awaits handle_request before it reads the next line; the HTTP
\* transport runs one handle_http_request per request (a request takes the
\* lowest free slot)
Accepts(h, m) ==
    /\ h \in ClientSlots
    /\ handler[h].pc = "idle"
    /\ \A k \in ClientSlots : k < h => handler[k].pc # "idle"
    /\ transport = "stdio" => (h = 1 /\ \A k \in ClientSlots : handler[k].pc = "idle")

\* the message reaches handle_request: run_stdio wants JSON with a "jsonrpc"
\* member, handle_http_request wants JSON
Routed(m) == m.form = "ok" \/ (m.form = "no_jsonrpc" /\ transport = "http")

\* the response (or none) is written back and the call is over
Completed(h, m, reply, fwd, g) ==
    /\ last' = [msg |-> m, reply |-> reply, fwd |-> fwd, ghost |-> g]
    /\ handler' = [handler EXCEPT ![h] = IdleHandler]

\* A faulty transport, to compare with: every rejected line is an internal error
RejectCodeInternal(m) == INTERNAL_ERROR

\* run_stdio: json.JSONDecodeError is a Parse error, JSON without "jsonrpc" an
\* Invalid Request; handle_http_request: json.JSONDecodeError is a Parse error
RejectCode(m) == IF m.form = "bad_json" THEN PARSE_ERROR ELSE INVALID_REQUEST

\* run_stdio and handle_http_request: the line is answered with an error whose
\* id is null and never reaches handle_request (run_stdio skips blank lines
\* before it parses: they are no messages)
RejectLine(h, m) ==
    /\ Accepts(h, m)
    /\ ~Routed(m)
    /\ Completed(h, m, ErrorReply(0, RejectCode(m)), NoFwd, Ghost(m))
    /\ UNCHANGED <<cfgVars, dirVars, flagVars, monitorVars, nStarts>>

\* handle_initialize up to "await self.initialize_proxy_servers()": one
\* start_server_connection per configured backend is started
HandleInitialize(h, m) ==
    /\ Accepts(h, m)
    /\ Routed(m)
    /\ m.method = "initialize"
    /\ nStarts + Len(mcp_servers) <= MaxStarts
    /\ nStarts' = nStarts + Len(mcp_servers)
    /\ initializeReceived' = TRUE
    /\ handler' = [handler EXCEPT ![h] =
            [pc |-> "starting", msg |-> m,
             tasks |-> [k \in 1..Len(mcp_servers) |->
                          [stage |-> "spawn", conn |-> NewConn(mcp_servers[k])]],
             fwd |-> NoFwd, ghost |-> Ghost(m)]]
    /\ last' = NoExchange
    /\ UNCHANGED <<cfgVars, dirVars, initialized, initializedProcessed,
                   monitorVars>>

\* start_server_connection, one call from the spawn to its return: every
\* attempt failed and None is returned ("failed"), the call ends with an
\* exception ("raised": terminate() of an exited process after a handshake
\* timeout), or the spawn and the handshake succeed and fetch_server_capabilities runs against a backend that
\* answers its list requests ("lists") or leaves them unanswered ("mute"). With
\* an answer the descriptors are renamed, stored in conn.* and appended to the
\* directory.
StartServerConnection(h, k, out) ==
    /\ handler[h].pc \in {"starting", "reconnecting"}
    /\ k \in 1..Len(handler[h].tasks)
    /\ handler[h].tasks[k].stage = "spawn"
    /\ LET c == handler[h].tasks[k].conn
           adv == catalog[k]
           newTools == ExposedNames(c.name, adv.tools)
           newResources == ExposedUris(c.name, adv.resources)
           newPrompts == ExposedNames(c.name, adv.prompts) IN
       IF out = "lists"
       THEN /\ handler' = [handler EXCEPT ![h].tasks[k] =
                    [stage |-> "ok",
                     conn |-> [c EXCEPT !.tools = newTools, !.resources = newResources,
                                        !.prompts = newPrompts, !.adv = adv,
                                        !.fresh = TRUE]]]
            /\ tools' = tools \o newTools
            /\ resources' = resources \o newResources
            /\ prompts' = prompts \o newPrompts
       ELSE IF out = "mute"
       THEN \* the list requests time out: update_stats sets the heartbeat
            /\ handler' = [handler EXCEPT ![h].tasks[k] =
                            [stage |-> "ok", conn |-> [c EXCEPT !.fresh = TRUE]]]
            /\ UNCHANGED <<tools, resources, prompts>>
       ELSE /\ handler' = [handler EXCEPT ![h].tasks[k].stage = out]
            /\ UNCHANGED <<tools, resources, prompts>>
    /\ last' = NoExchange
    /\ UNCHANGED <<cfgVars, server_connections, flagVars, monitorVars, nStarts>>

\* A faulty declaration, to compare with: every category, whatever is listed
CapabilitiesAll ==
    << <<"tools">>, <<"resources">>, <<"prompts">>, <<"logging">> >>

\* "capabilities": the categories whose directory is not empty, and logging
Capabilities ==
    (IF tools # <<>> THEN << <<"tools">> >> ELSE <<>>)
    \o (IF resources # <<>> THEN << <<"resources">> >> ELSE <<>>)
    \o (IF prompts # <<>> THEN << <<"prompts">> >> ELSE <<>>)
    \o << <<"logging">> >>

\* A faulty start, to compare with: every initialize creates a monitor task
StartsMonitorAlways == TRUE

\* initialize_proxy_servers: "if not self.health_check_task"
StartsMonitor == ~health_check_task

\* gather is over: initialize_proxy_servers stores the connections and starts
\* the health monitor unless there is one, handle_initialize returns the
\* capabilities
InitializeReturn(h) ==
    /\ handler[h].pc = "starting"
    /\ \A k \in 1..Len(handler[h].tasks) :
          handler[h].tasks[k].stage \in {"ok", "failed", "raised"}
    /\ server_connections' = StoreAll(server_connections, handler[h].tasks, 1)
    /\ health_check_task' = TRUE
    /\ monitor_tasks' = IF StartsMonitor THEN monitor_tasks + 1 ELSE monitor_tasks
    /\ Completed(h, handler[h].msg, Respond(handler[h].msg, Capabilities), NoFwd,
                 handler[h].ghost)
    /\ UNCHANGED <<cfgVars, tools, resources, prompts, flagVars, nStarts>>

\* handle_initialized: self.initialized = True, and no response even to a
\* message that carries an id
HandleInitialized(h, m) ==
    /\ Accepts(h, m)
    /\ Routed(m)
    /\ m.method = "initialized"
    /\ initialized' = TRUE
    /\ initializedProcessed' = TRUE
    /\ Completed(h, m, NoReply, NoFwd, Ghost(m))
    /\ UNCHANGED <<cfgVars, dirVars, initializeReceived, monitorVars, nStarts>>

\* handle_tools_list, handle_resources_list, handle_prompts_list
HandleList(h, m) ==
    /\ Accepts(h, m)
    /\ Routed(m)
    /\ m.method \in ListMethods
    /\ Completed(h, m,
                 IF NotReady(m.method) THEN Raise(m) ELSE Respond(m, Aggregate(m.method)),
                 NoFwd, Ghost(m))
    /\ UNCHANGED <<cfgVars, dirVars, flagVars, monitorVars, nStarts>>

\* handle_tools_call (but reconnect_server), handle_resources_read and
\* handle_prompts_get up to the await of send_server_request
HandleCall(h, m) ==
    /\ Accepts(h, m)
    /\ Routed(m)
    /\ m.method \in CallMethods
    /\ ~(m.method = "tools/call" /\ m.name = ReconnectTool /\ ~NotReady(m.method))
    /\ LET j == Route(m.method, m.name) IN
       IF NotReady(m.method)
       THEN Completed(h, m, Raise(m), NoFwd, Ghost(m))
       ELSE IF IsBuiltin(m.method, m.name)
       THEN Completed(h, m, Respond(m, BuiltinResult(m.method, m.name)), NoFwd, Ghost(m))
       ELSE IF j = 0
       THEN Completed(h, m, NotFound(m), NoFwd, Ghost(m))
       ELSE /\ handler' = [handler EXCEPT ![h] =
                    [pc |-> "proxy_wait", msg |-> m, tasks |-> <<>>,
                     fwd |-> Forwarded(m.method, m.name, server_connections[j]),
                     ghost |-> Ghost(m)]]
            /\ last' = NoExchange
    /\ UNCHANGED <<cfgVars, dirVars, flagVars, monitorVars, nStarts>>

\* send_server_request returned a message with a result, one with an error, or
\* None
ProxyReturn(h, out) ==
    /\ handler[h].pc = "proxy_wait"
    /\ Completed(h, handler[h].msg,
                 IF out = "result" THEN Respond(handler[h].msg, <<>>) ELSE Raise(handler[h].msg),
                 handler[h].fwd, handler[h].ghost)
    /\ UNCHANGED <<cfgVars, dirVars, flagVars, monitorVars, nStarts>>

\* the one task of a reconnection, for the backend configured at position k
ReconnectTasks(k) ==
    [j \in 1..Len(mcp_servers) |->
        [stage |-> IF j = k THEN "spawn" ELSE "off", conn |-> NewConn(mcp_servers[j])]]

\* A faulty report, to compare with: every outcome is reported as a success
ReconnectTextSuccess(outcome, name) == << <<"Successfully reconnected to ">> \o name >>

\* handle_tools_call, reconnect_server: the text of the result
ReconnectText(outcome, name) ==
    CASE outcome = "required" -> << <<"Error: server_name is required">> >>
      [] outcome = "unknown" ->
            << <<"Error: Server '">> \o name \o <<"' not found in configuration">> >>
      [] outcome = "ok" -> << <<"Successfully reconnected to ">> \o name >>
      [] OTHER -> << <<"Failed to reconnect to ">> \o name >>

\* handle_tools_call, reconnect_server: without a configured server_name a text
\* is returned, else the old connection is cleaned up and a new one started
HandleReconnect(h, m) ==
    /\ Accepts(h, m)
    /\ Routed(m)
    /\ m.method = "tools/call"
    /\ m.name = ReconnectTool
    /\ ~NotReady(m.method)
    /\ IF m.arg \notin Range(mcp_servers)
       THEN /\ Completed(h, m,
                         Respond(m, ReconnectText(IF m.arg = <<>> THEN "required" ELSE "unknown",
                                                  m.arg)),
                         NoFwd, Ghost(m))
            /\ UNCHANGED <<nStarts, server_connections>>
       ELSE IF \E j \in Registered(m.arg) : TerminateRaisesOn(server_connections[j])
       THEN \* old_conn.process.terminate() raises: except Exception of handle_request
            /\ Completed(h, m, Raise(m), NoFwd, Ghost(m))
            /\ UNCHANGED <<nStarts, server_connections>>
       ELSE /\ nStarts < MaxStarts
            /\ nStarts' = nStarts + 1
            /\ server_connections' = Teardown(server_connections, m.arg)
            /\ handler' = [handler EXCEPT ![h] =
                    [pc |-> "reconnecting", msg |-> m,
                     tasks |-> ReconnectTasks(CHOOSE k \in 1..Len(mcp_servers) : mcp_servers[k] = m.arg),
                     fwd |-> NoFwd, ghost |-> Ghost(m)]]
            /\ last' = NoExchange
    /\ UNCHANGED <<cfgVars, tools, resources, prompts, flagVars, monitorVars>>

\* health_monitor_loop: the message-like record of a cycle that deals with the
\* connection of a name
MonitorMsg(name) == [NoMsg EXCEPT !.method = "health_monitor", !.name = name]

\* health_monitor_loop: after the sleep a registered connection is found
\* unhealthy (its heartbeat is older than 60 s), cleaned up and a new one started
HealthMonitor(j) ==
    /\ health_check_task
    /\ handler[0].pc = "idle"
    /\ j \in 1..Len(server_connections)
    /\ ~TerminateRaisesOn(server_connections[j])
    /\ nStarts < MaxStarts
    /\ nStarts' = nStarts + 1
    /\ server_connections' = Teardown(server_connections, server_connections[j].name)
    /\ handler' = [handler EXCEPT ![0] =
            [pc |-> "reconnecting", msg |-> MonitorMsg(server_connections[j].name),
             tasks |-> ReconnectTasks(CHOOSE k \in 1..Len(mcp_servers) :
                                         mcp_servers[k] = server_connections[j].name),
             fwd |-> NoFwd, ghost |-> NoGhost]]
    /\ last' = NoExchange
    /\ UNCHANGED <<cfgVars, tools, resources, prompts, flagVars, monitorVars>>

\* health_monitor_loop: after the sleep a registered connection is found
\* unhealthy because its process has exited; old_conn.process.terminate()
\* raises and the cycle ends in "except Exception" before any reconnection
MonitorRaises(j) ==
    /\ health_check_task
    /\ handler[0].pc = "idle"
    /\ j \in 1..Len(server_connections)
    /\ TerminateRaisesOn(server_connections[j])
    /\ handler' = [handler EXCEPT ![0] =
            [IdleHandler EXCEPT !.pc = "error_logged",
                                !.msg = MonitorMsg(server_connections[j].name)]]
    /\ last' = NoExchange
    /\ UNCHANGED <<cfgVars, dirVars, flagVars, monitorVars, nStarts>>

\* health_monitor_loop: the error is logged and the loop sleeps again
MonitorResumes ==
    /\ handler[0].pc = "error_logged"
    /\ handler' = [handler EXCEPT ![0] = IdleHandler]
    /\ last' = NoExchange
    /\ UNCHANGED <<cfgVars, dirVars, flagVars, monitorVars, nStarts>>

\* the process of a registered connection exits, by itself or on the signal
ProcessExits(j) ==
    /\ j \in 1..Len(server_connections)
    /\ server_connections[j].process \in {"alive", "terminated"}
    /\ server_connections' = [server_connections EXCEPT ![j].process = "exited"]
    /\ last' = NoExchange
    /\ UNCHANGED <<cfgVars, tools, resources, prompts, flagVars, monitorVars,
                   handler, nStarts>>

\* start_server_connection returned to reconnect_server or the health monitor:
\* a new connection replaces the registered one; an exception of the call ends
\* the request in "except Exception" of handle_request, or the cycle of the
\* monitor in its own
ReconnectReturn(h) ==
    /\ handler[h].pc = "reconnecting"
    /\ \A k \in 1..Len(handler[h].tasks) :
          handler[h].tasks[k].stage \in {"ok", "failed", "raised", "off"}
    /\ server_connections' = StoreAll(server_connections, handler[h].tasks, 1)
    /\ IF h = 0
       THEN /\ handler' = [handler EXCEPT ![h] = IdleHandler]
            /\ last' = NoExchange
       ELSE Completed(h, handler[h].msg,
                      IF \E k \in 1..Len(handler[h].tasks) : handler[h].tasks[k].stage = "raised"
                      THEN Raise(handler[h].msg)
                      ELSE Respond(handler[h].msg,
                                   ReconnectText(IF \E k \in 1..Len(handler[h].tasks) :
                                                        handler[h].tasks[k].stage = "ok"
                                                 THEN "ok" ELSE "failed",
                                                 handler[h].msg.arg)),
                      NoFwd, handler[h].ghost)
    /\ UNCHANGED <<cfgVars, tools, resources, prompts, flagVars, monitorVars, nStarts>>

(***************************************************************************)
(* health_monitor_loop with the heartbeats told apart: a cycle lists the    *)
(* registered connections that are not healthy and deals with them one      *)
(* after another, in the order of the registry.                             *)
(***************************************************************************)
\* 60 s pass without a request completing on a registered connection
HeartbeatAges(j) ==
    /\ j \in 1..Len(server_connections)
    /\ server_connections[j].fresh
    /\ server_connections' = [server_connections EXCEPT ![j].fresh = FALSE]
    /\ last' = NoExchange
    /\ UNCHANGED <<cfgVars, tools, resources, prompts, flagVars, monitorVars,
                   handler, nStarts>>

\* unhealthy_servers: the names of the registered connections that are not
\* healthy, as positions of the registry
UnhealthyServers == {j \in 1..Len(server_connections) : ~IsHealthy(server_connections[j])}

\* the tasks of a cycle: the attempt for the backend configured at position k
\* is started, the other listed names wait for their turn
CycleTasks(k, waiting) ==
    [j \in 1..Len(mcp_servers) |->
        [stage |-> IF j = k THEN "spawn"
                   ELSE IF mcp_servers[j] \in waiting THEN "queued" ELSE "off",
         conn |-> NewConn(mcp_servers[j])]]

\* the position of a name in the configuration
ConfigOf(name) == CHOOSE k \in 1..Len(mcp_servers) : mcp_servers[k] = name

\* health_monitor_loop: after the sleep the unhealthy connections are listed
\* and the first is dealt with: its reader is cancelled and its process
\* terminated (that raises on an exited process and the cycle ends in "except
\* Exception"), then start_server_connection is called
MonitorCycle ==
    /\ health_check_task
    /\ handler[0].pc = "idle"
    /\ UnhealthyServers # {}
    /\ LET first == CHOOSE j \in UnhealthyServers : \A i \in UnhealthyServers : j <= i
           name == server_connections[first].name
           waiting == {server_connections[j].name : j \in UnhealthyServers \ {first}} IN
       IF TerminateRaisesOn(server_connections[first])
       THEN /\ handler' = [handler EXCEPT ![0] =
                    [pc |-> "error_logged", msg |-> MonitorMsg(name),
                     tasks |-> CycleTasks(0, waiting), fwd |-> NoFwd, ghost |-> NoGhost]]
            /\ UNCHANGED <<server_connections, nStarts>>
       ELSE /\ nStarts < MaxStarts
            /\ nStarts' = nStarts + 1
            /\ server_connections' = Teardown(server_connections, name)
            /\ handler' = [handler EXCEPT ![0] =
                    [pc |-> "reconnecting", msg |-> MonitorMsg(name),
                     tasks |-> CycleTasks(ConfigOf(name), waiting),
                     fwd |-> NoFwd, ghost |-> NoGhost]]
    /\ last' = NoExchange
    /\ UNCHANGED <<cfgVars, tools, resources, prompts, flagVars, monitorVars>>

\* health_monitor_loop, the next turn of "for server_name in unhealthy_servers":
\* start_server_connection returned (its connection is stored) or raised (the
\* cycle ends); the connection now registered under the next listed name is
\* fetched and torn down, whatever its health, and its attempt is started
MonitorNext ==
    /\ handler[0].pc = "reconnecting"
    /\ \E k \in 1..Len(handler[0].tasks) : handler[0].tasks[k].stage = "queued"
    /\ \A k \in 1..Len(handler[0].tasks) :
          handler[0].tasks[k].stage \in {"ok", "failed", "raised", "off", "queued"}
    /\ LET tasks == handler[0].tasks
           stored == StoreAll(server_connections, tasks, 1)
           queued == {j \in 1..Len(stored) :
                         \E k \in 1..Len(tasks) : /\ tasks[k].stage = "queued"
                                                  /\ tasks[k].conn.name = stored[j].name}
           next == CHOOSE j \in queued : \A i \in queued : j <= i
           name == stored[next].name IN
       IF \E k \in 1..Len(tasks) : tasks[k].stage = "raised"
       THEN /\ handler' = [handler EXCEPT ![0] = [@ EXCEPT !.pc = "error_logged"]]
            /\ UNCHANGED server_connections
       ELSE IF TerminateRaisesOn(stored[next])
       THEN /\ handler' = [handler EXCEPT ![0] =
                    [@ EXCEPT !.pc = "error_logged", !.msg = MonitorMsg(name)]]
            /\ server_connections' = stored
       ELSE /\ server_connections' = Teardown(stored, name)
            /\ handler' = [handler EXCEPT ![0] =
                    [@ EXCEPT !.msg = MonitorMsg(name),
                              !.tasks = [k \in 1..Len(tasks) |->
                                  [tasks[k] EXCEPT !.stage =
                                      IF tasks[k].conn.name = name THEN "spawn"
                                      ELSE IF tasks[k].stage = "queued" THEN "queued"
                                      ELSE "off"]]]]
    /\ last' = NoExchange
    /\ UNCHANGED <<cfgVars, tools, resources, prompts, flagVars, monitorVars, nStarts>>

\* A faulty dispatch, to compare with: an unknown method fails like a handler
UnknownMethodRaises(m) == Raise(m)

\* handle_request, else branch: the Method not found object, with the id of the
\* message or null
UnknownMethodReply(m) == ErrorReply(m.id, METHOD_NOT_FOUND)

\* handle_request, else branch: Method not found, returned whether or not the
\* message carries an id
HandleUnknown(h, m) ==
    /\ Accepts(h, m)
    /\ Routed(m)
    /\ m.method = "unknown/method"
    /\ Completed(h, m, UnknownMethodReply(m), NoFwd, Ghost(m))
    /\ UNCHANGED <<cfgVars, dirVars, flagVars, monitorVars, nStarts>>

(***************************************************************************)
(* cleanup: the end of run_stdio and run_http. No request is being handled  *)
(* any more: run_stdio has left its loop, run_http has stopped its runner.  *)
(***************************************************************************)
\* A faulty close, to compare with: no kill follows the grace period
CloseProcessNoKill(c, obeys) ==
    IF TerminateRaisesOn(c) THEN [signal |-> "none", process |-> "exited"]
    ELSE IF obeys THEN [signal |-> "terminate", process |-> "exited"]
    ELSE [signal |-> "terminate", process |-> "alive"]

\* cleanup, the body of its loop: terminate() raises on an exited process and
\* the error is logged; else the process exits within 5 s of the signal, or
\* wait_for times out and the process is killed and awaited
CloseProcess(c, obeys) ==
    IF TerminateRaisesOn(c) THEN [signal |-> "none", process |-> "exited"]
    ELSE IF obeys THEN [signal |-> "terminate", process |-> "exited"]
    ELSE [signal |-> "kill", process |-> "exited"]

\* cleanup up to its loop: the health monitor, if there is one, is cancelled
\* and awaited, whatever it was doing; the handlers of requests are over
CleanupStart ==
    /\ cleanup.pc \in {"off", "done"}
    /\ cleanup.runs < MaxCleanups
    /\ cleanup' = [pc |-> "closing", at |-> 1,
                   monitor |-> IF health_check_task THEN "cancelled" ELSE "none",
                   busy |-> IF cleanup.pc = "off" THEN handler[0].pc = "reconnecting"
                            ELSE cleanup.busy,
                   registered |-> server_connections,
                   closed |-> <<>>,
                   runs |-> cleanup.runs + 1,
                   previous |-> cleanup.closed]
    /\ handler' = [h \in Slots |-> IdleHandler]
    /\ last' = NoExchange
    /\ UNCHANGED <<cfgVars, dirVars, flagVars, monitorVars, nStarts, connVars>>

\* cleanup, one turn of its loop: the reader task of the connection is
\* cancelled and its process closed; obeys tells whether the process exits on
\* the signal
CleanupClose(obeys) ==
    /\ cleanup.pc = "closing"
    /\ cleanup.at <= Len(server_connections)
    /\ LET c == server_connections[cleanup.at]
           r == CloseProcess(c, obeys) IN
       /\ server_connections' = [server_connections EXCEPT ![cleanup.at].process = r.process]
       /\ cleanup' = [cleanup EXCEPT
              !.at = @ + 1,
              !.closed = Append(@, [name |-> c.name, reader |-> "cancelled",
                                    signal |-> r.signal, obeys |-> obeys,
                                    process |-> r.process])]
    /\ last' = NoExchange
    /\ UNCHANGED <<cfgVars, tools, resources, prompts, flagVars, monitorVars, handler,
                   nStarts, connVars>>

\* A faulty end, to compare with: the registry is left as it is
CleanupClearKeepsRegistry ==
    /\ cleanup.pc = "closing"
    /\ cleanup.at > Len(server_connections)
    /\ cleanup' = [cleanup EXCEPT !.pc = "done"]
    /\ last' = NoExchange
    /\ UNCHANGED <<cfgVars, dirVars, flagVars, monitorVars, handler, nStarts, connVars>>

\* cleanup, after its loop: self.server_connections.clear()
CleanupClear ==
    /\ cleanup.pc = "closing"
    /\ cleanup.at > Len(server_connections)
    /\ server_connections' = <<>>
    /\ cleanup' = [cleanup EXCEPT !.pc = "done"]
    /\ last' = NoExchange
    /\ UNCHANGED <<cfgVars, tools, resources, prompts, flagVars, monitorVars, handler,
                   nStarts, connVars>>

(***************************************************************************)
(* The specifications.                                                      *)
(***************************************************************************)
\* the router at rest, for the runs of the connection protocol
RouterAtRest ==
    /\ InitRouter
    /\ transport = "stdio"
    /\ ~config_loaded

Init ==
    /\ InitConn
    /\ cleanup = CleanupOff
    /\ RouterAtRest

Next ==
    \/ InitializeProxyServers /\ UNCHANGED frontVars
    \/ ReconnectServer /\ UNCHANGED frontVars
    \/ ReconnectRaises /\ UNCHANGED frontVars
    \/ SpawnOk /\ UNCHANGED frontVars
    \/ SpawnFails /\ UNCHANGED frontVars
    \/ SpawnConfigError /\ UNCHANGED frontVars
    \/ CommandMissing /\ UNCHANGED frontVars
    \/ BackoffDone /\ UNCHANGED frontVars
    \/ \E out \in {"awaiting", "write_error", "dead"} : InitSend(out) /\ UNCHANGED frontVars
    \/ InitResolved /\ UNCHANGED frontVars
    \/ HandshakeTimeout /\ UNCHANGED frontVars
    \/ \E out \in {"awaiting", "write_error", "dead"} : FetchSend(out) /\ UNCHANGED frontVars
    \/ StartReturn /\ UNCHANGED frontVars
    \/ \E out \in {"awaiting", "write_error", "dead"} : ProxySend(out) /\ UNCHANGED frontVars
    \/ \E i \in Inst : \E id \in Ids : SendResume(i, id) /\ UNCHANGED frontVars
    \/ \E i \in Inst : \E id \in Ids : SendTimeout(i, id) /\ UNCHANGED frontVars
    \/ \E i \in Inst : ReaderRead(i) /\ UNCHANGED frontVars
    \/ \E i \in Inst : ReaderEof(i) /\ UNCHANGED frontVars
    \/ \E i \in Inst : \E id \in Ids : \E kind \in {"result", "error"} :
            BackendReply(i, id, kind) /\ UNCHANGED frontVars
    \/ \E i \in Inst : ProcessDies(i) /\ UNCHANGED frontVars
    \/ \E i \in Inst : ProcessReaped(i) /\ UNCHANGED frontVars

Spec == Init /\ [][Next]_vars

\* one attempt to start a backend and the requests it sends, with a backend
\* that also writes lines that are no messages
NextReader ==
    \/ InitializeProxyServers /\ UNCHANGED frontVars
    \/ SpawnOk /\ UNCHANGED frontVars
    \/ \E out \in {"awaiting", "write_error", "dead"} : InitSend(out) /\ UNCHANGED frontVars
    \/ InitResolved /\ UNCHANGED frontVars
    \/ HandshakeTimeout /\ UNCHANGED frontVars
    \/ \E out \in {"awaiting", "write_error", "dead"} : FetchSend(out) /\ UNCHANGED frontVars
    \/ StartReturn /\ UNCHANGED frontVars
    \/ \E i \in Inst : \E id \in Ids : SendResume(i, id) /\ UNCHANGED frontVars
    \/ \E i \in Inst : \E id \in Ids : SendTimeout(i, id) /\ UNCHANGED frontVars
    \/ \E i \in Inst : ReaderRead(i) /\ UNCHANGED frontVars
    \/ \E i \in Inst : ReaderEof(i) /\ UNCHANGED frontVars
    \/ \E i \in Inst : \E id \in Ids : \E kind \in {"result", "error"} :
            BackendReply(i, id, kind) /\ UNCHANGED frontVars
    \/ \E i \in Inst : \E kind \in MalformedKinds : BackendGarbage(i, kind) /\ UNCHANGED frontVars
    \/ \E i \in Inst : ProcessDies(i) /\ UNCHANGED frontVars
    \/ \E i \in Inst : ProcessReaped(i) /\ UNCHANGED frontVars

SpecReader == Init /\ [][NextReader]_vars

InitR ==
    /\ InitRouter
    /\ InitConn
    /\ cleanup = CleanupOff

NextRouter ==
    \/ \E h \in ClientSlots : \E m \in ClientMessages(h) : RejectLine(h, m) /\ UNCHANGED backVars
    \/ \E h \in ClientSlots : \E m \in ClientMessages(h) : HandleInitialize(h, m) /\ UNCHANGED backVars
    \/ \E h \in Slots : \E k \in 1..Len(mcp_servers) : \E out \in {"failed", "raised", "lists", "mute"} :
            StartServerConnection(h, k, out) /\ UNCHANGED backVars
    \/ \E h \in ClientSlots : InitializeReturn(h) /\ UNCHANGED backVars
    \/ \E h \in ClientSlots : \E m \in ClientMessages(h) : HandleInitialized(h, m) /\ UNCHANGED backVars
    \/ \E h \in ClientSlots : \E m \in ClientMessages(h) : HandleList(h, m) /\ UNCHANGED backVars
    \/ \E h \in ClientSlots : \E m \in ClientMessages(h) : HandleCall(h, m) /\ UNCHANGED backVars
    \/ \E h \in ClientSlots : \E out \in {"result", "error", "none"} :
            ProxyReturn(h, out) /\ UNCHANGED backVars
    \/ \E h \in ClientSlots : \E m \in ClientMessages(h) : HandleReconnect(h, m) /\ UNCHANGED backVars
    \/ \E j \in 1..Len(mcp_servers) : HealthMonitor(j) /\ UNCHANGED backVars
    \/ \E h \in Slots : ReconnectReturn(h) /\ UNCHANGED backVars
    \/ \E h \in ClientSlots : \E m \in ClientMessages(h) : HandleUnknown(h, m) /\ UNCHANGED backVars

SpecRouter == InitR /\ [][NextRouter]_vars

NextHealth ==
    \/ \E h \in ClientSlots : \E m \in ClientMessages(h) : HandleInitialize(h, m) /\ UNCHANGED backVars
    \/ \E h \in Slots : \E k \in 1..Len(mcp_servers) : \E out \in {"failed", "raised", "lists", "mute"} :
            StartServerConnection(h, k, out) /\ UNCHANGED backVars
    \/ \E h \in ClientSlots : InitializeReturn(h) /\ UNCHANGED backVars
    \/ \E h \in ClientSlots : \E m \in ClientMessages(h) : HandleInitialized(h, m) /\ UNCHANGED backVars
    \/ \E h \in ClientSlots : \E m \in ClientMessages(h) : HandleReconnect(h, m) /\ UNCHANGED backVars
    \/ \E j \in 1..Len(mcp_servers) : ProcessExits(j) /\ UNCHANGED backVars
    \/ \E j \in 1..Len(mcp_servers) : HealthMonitor(j) /\ UNCHANGED backVars
    \/ \E j \in 1..Len(mcp_servers) : MonitorRaises(j) /\ UNCHANGED backVars
    \/ MonitorResumes /\ UNCHANGED backVars
    \/ \E h \in Slots : ReconnectReturn(h) /\ UNCHANGED backVars

SpecHealth == InitR /\ [][NextHealth]_vars

\* the life of the connections up to the end of the gateway
NextShutdown ==
    \/ cleanup.pc = "off" /\ NextHealth
    \/ CleanupStart
    \/ \E obeys \in BOOLEAN : CleanupClose(obeys)
    \/ CleanupClear

SpecShutdown == InitR /\ [][NextShutdown]_vars

\* the connection a backend that answers its list requests is registered with
Established(name, adv) ==
    [NewConn(name) EXCEPT !.tools = ExposedNames(name, adv.tools),
                          !.resources = ExposedUris(name, adv.resources),
                          !.prompts = ExposedNames(name, adv.prompts),
                          !.adv = adv, !.fresh = TRUE]

\* the gateway over the line stream after initialize and initialized: both
\* configured backends are connected and the health monitor sleeps (the
\* attempts are counted from here)
InitConnected ==
    /\ transport = "stdio"
    /\ config_loaded = TRUE
    /\ mcp_servers = << <<"g">>, <<"g", "_", "g">> >>
    /\ catalog = <<PlainCatalog, PlainCatalog>>
    /\ initialized = TRUE
    /\ server_connections = [k \in 1..2 |-> Established(mcp_servers[k], catalog[k])]
    /\ tools = BuiltinTools \o server_connections[1].tools \o server_connections[2].tools
    /\ resources = BuiltinResources \o server_connections[1].resources
                        \o server_connections[2].resources
    /\ prompts = BuiltinPrompts \o server_connections[1].prompts \o server_connections[2].prompts
    /\ health_check_task = TRUE
    /\ monitor_tasks = 1
    /\ handler = [h \in Slots |-> IdleHandler]
    /\ last = NoExchange
    /\ nStarts = 0
    /\ initializeReceived = TRUE
    /\ initializedProcessed = TRUE
    /\ InitConn
    /\ cleanup = CleanupOff

NextMonitor ==
    \/ \E j \in 1..Len(mcp_servers) : HeartbeatAges(j) /\ UNCHANGED backVars
    \/ \E j \in 1..Len(mcp_servers) : ProcessExits(j) /\ UNCHANGED backVars
    \/ MonitorCycle /\ UNCHANGED backVars
    \/ MonitorNext /\ UNCHANGED backVars
    \/ MonitorResumes /\ UNCHANGED backVars
    \/ \E h \in Slots : \E k \in 1..Len(mcp_servers) : \E out \in {"failed", "raised", "lists", "mute"} :
            StartServerConnection(h, k, out) /\ UNCHANGED backVars
    \/ \E h \in Slots : ReconnectReturn(h) /\ UNCHANGED backVars
    \/ \E h \in ClientSlots : \E m \in ClientMessages(h) : HandleReconnect(h, m) /\ UNCHANGED backVars

SpecMonitor == InitConnected /\ [][NextMonitor]_vars

\* the router over the line stream, configured with one backend whose exposed
\* names meet the gateway's own
InitShadow ==
    /\ transport = "stdio"
    /\ config_loaded = TRUE
    /\ mcp_servers \in ShadowRosters
    /\ catalog = <<ShadowCatalog>>
    /\ initialized = FALSE
    /\ server_connections = <<>>
    /\ tools = BuiltinTools
    /\ resources = BuiltinResources
    /\ prompts = BuiltinPrompts
    /\ health_check_task = FALSE
    /\ monitor_tasks = 0
    /\ handler = [h \in Slots |-> IdleHandler]
    /\ last = NoExchange
    /\ nStarts = 0
    /\ initializeReceived = FALSE
    /\ initializedProcessed = FALSE
    /\ InitConn
    /\ cleanup = CleanupOff

SpecShadow == InitShadow /\ [][NextRouter]_vars

(***************************************************************************)
(* Properties of the connection protocol.                                  *)
(***************************************************************************)
\* C1: a pending slot is only ever resolved with a backend message whose id is
\* the slot's key and that was read from the process of the same connection
\* instance; so replies out of order reach the request they answer and a (late)
\* reply of a superseded process never resolves a request of the new process.
C1_ReplyCorrelation ==
    \A i \in Inst : \A id \in Ids :
        slot[i][id].st = "resolved" =>
            /\ slot[i][id].res.id = id
            /\ slot[i][id].res.src = i

\* C1, its case: on one connection the reply to a later request has resolved
\* its slot while an earlier request is still waiting for its own.
C1_OutOfOrderDelivered ==
    \E i \in Inst : \E a \in Ids : \E b \in Ids :
        /\ b < a
        /\ slot[i][a].st = "resolved"
        /\ slot[i][b].st = "awaiting"

\* C2: once the send of a request has ended (returned, failed on the write, or
\* been cancelled by the handshake timeout) the pending map of its connection
\* holds no entry under the request's id.
C2_NoDanglingSlot ==
    \A i \in Inst : \A id \in Ids :
        slot[i][id].st = "ended" => ~slot[i][id].inmap

\* C3: request ids are unique per connection instance: the counter only
\* increases, no request is written under an id already used on its connection,
\* and no registration replaces an entry of the pending map.
C3_IdsUnique ==
    [][/\ \A i \in Inst : request_id'[i] >= request_id[i]
       /\ ~clash'
       /\ ~dup'
       /\ \A i \in Inst : \A id \in Ids :
            (slot[i][id].st = "free" /\ slot'[i][id].st # "free") =>
                (id = request_id'[i] /\ \A k \in Ids : k >= id => slot[i][k].st = "free")
      ]_vars

\* C3, its case: two proxied calls of concurrently running handlers wait on the
\* registered connection under different ids, after the handshake and the
\* capability fetch used theirs.
C3_ConcurrentCallsPending ==
    /\ server_conn # 0
    /\ \E a \in Ids : \E b \in Ids :
        /\ a # b
        /\ slot[server_conn][a].st = "awaiting"
        /\ slot[server_conn][b].st = "awaiting"
        /\ slot[server_conn][1].st = "ended"

\* C16: when the wait for a reply that never comes times out, the request is
\* over and the statistics of its connection count one more request and one
\* more error; the statistics, the pending requests and the streams of every
\* other connection are as they were.
C16_TimeoutCountsOneError ==
    [][\A i \in Inst : \A id \in Ids :
          (slot[i][id].st = "awaiting" /\ slot'[i][id].st = "ended") =>
              /\ request_count'[i] = request_count[i] + 1
              /\ error_count'[i] = error_count[i] + 1
              /\ \A j \in Inst \ {i} :
                    /\ request_count'[j] = request_count[j]
                    /\ error_count'[j] = error_count[j]
                    /\ slot'[j] = slot[j]
                    /\ inbox'[j] = inbox[j]
                    /\ stdout'[j] = stdout[j]
                    /\ reader'[j] = reader[j]
                    /\ proc'[j] = proc[j]
      ]_vars

\* C16, its case: on the registered connection a request that the backend read
\* and never answered is over with an error counted, while a request of
\* another connection is waiting for its reply.
C16_TimeoutBesideOtherConnection ==
    \E i \in Inst : \E j \in Inst \ {i} : \E id \in Ids : \E k \in Ids :
        /\ i = server_conn
        /\ slot[i][id].st = "ended"
        /\ id \in inbox[i]
        /\ error_count[i] >= 1
        /\ slot[j][k].st = "awaiting"

\* C17: the timeout of one request touches no other pending request of the
\* same connection: each of them keeps its entry in the pending map and its
\* future, the reader task and the streams go on, so a later reply still
\* resolves it; the 30 s timeout of send_server_request removes the entry of
\* the request that timed out.
C17_TimeoutLeavesOthersPending ==
    [][\A i \in Inst : \A id \in Ids :
          (slot[i][id].st = "awaiting" /\ slot'[i][id].st = "ended") =>
              /\ \A k \in Ids \ {id} : slot'[i][k] = slot[i][k]
              /\ inbox'[i] = inbox[i]
              /\ stdout'[i] = stdout[i]
              /\ reader'[i] = reader[i]
              /\ ~IsInitSend(i, id) => ~slot'[i][id].inmap
      ]_vars

\* C17, its case: on the registered connection a request that the backend
\* never answered has timed out, and another request, pending under its own
\* id, has been resolved by its reply.
C17_OtherRequestResolved ==
    \E id \in Ids : \E k \in Ids \ {id} :
        /\ server_conn # 0
        /\ slot[server_conn][id].st = "ended"
        /\ id \in inbox[server_conn]
        /\ slot[server_conn][k].st = "resolved"
        /\ k > 4

\* C18: a request that times out in send_server_request leaves its connection
\* usable: the connection is still the registered one, with the same process
\* state, initialized flag, reader task and no terminate() call, only
\* last_error is set; and a call whose reply arrived returns it with no error
\* counted, also after a timeout on the connection.
C18_TimeoutKeepsConnection ==
    [][\A i \in Inst : \A id \in Ids :
          /\ ( /\ slot[i][id].st = "awaiting"
               /\ slot'[i][id].st = "ended"
               /\ ~IsInitSend(i, id) ) =>
                  /\ server_conn' = server_conn
                  /\ proc' = proc
                  /\ conn_initialized' = conn_initialized
                  /\ terminated' = terminated
                  /\ reader' = reader
                  /\ request_id' = request_id
                  /\ last_error'[i] = "Request timeout"
          /\ (slot[i][id].st = "resolved" /\ slot'[i][id].st = "ended") =>
                  /\ error_count' = error_count
                  /\ request_count'[i] = request_count[i] + 1
      ]_vars

\* C18, its case: on the registered connection request 5 timed out without an
\* answer, and request 6, sent after it, was answered and returned: six
\* requests counted, one error.
C18_LaterRequestSucceeds ==
    /\ server_conn # 0
    /\ slot[server_conn][5].st = "ended"
    /\ 5 \in inbox[server_conn]
    /\ slot[server_conn][6].st = "ended"
    /\ request_count[server_conn] = 6
    /\ error_count[server_conn] = 1
    /\ conn_initialized[server_conn]
    /\ proc[server_conn] = "alive"

\* C21: a call of start_server_connection makes at most three attempts, waits
\* 1 and then 2 between them and not after the last, and, unless the
\* configuration is at fault, ends without a connection only after the third
\* attempt has failed: every transient failure before that is retried.
C21_RetryPolicy ==
    /\ start.attempt < MaxRetries
    /\ start.pc = "sleep" =>
          /\ start.attempt < MaxRetries - 1
          /\ start.delay = 2 ^ start.attempt
    /\ (start.pc \in {"return_none", "raised"} /\ start.cause = "none") =>
          start.attempt = MaxRetries - 1

\* C22: a configuration error (no command, command not found, permission
\* denied) ends the call at once: failure is returned from the attempt that met
\* it with no backoff wait and no further attempt, the step spawns nothing, and
\* with no command the call has spawned no process at all.
C22_ConfigErrorFailsFast ==
    [][/\ (start.cause = "none" /\ start'.cause # "none") =>
             /\ start.pc = "spawn"
             /\ start'.pc = "return_none"
             /\ start'.attempt = start.attempt
             /\ nInst' = nInst
             /\ proc' = proc
             /\ start'.cause = "no_command" => (start.attempt = 0 /\ start.cur = 0)
       /\ (start.pc = "return_none" /\ start.cause # "none") =>
             (start' = start \/ start' = StartIdle)
      ]_vars

\* C22, its case: the first attempt met a command that cannot be executed and
\* the call is about to return failure, no process spawned, no wait made.
C22_FailedOnFirstAttempt ==
    /\ start.pc = "return_none"
    /\ start.cause = "config"
    /\ start.attempt = 0
    /\ start.delay = 1
    /\ nInst = 0

\* the positions of start_server_connection at which a list request is written
ListSendPcs == {"tools_send", "resources_send", "prompts_send"}

\* C33: in each connection attempt the initialize request is written first;
\* the initialized notification and then tools/list, resources/list and
\* prompts/list, in this order, are written only after its reply carried a
\* result; a connection enters the registry only at the end of this, with its
\* initialized flag set, and a proxied call is written only to the registered
\* connection.
C33_HandshakeOrdered ==
    [][/\ \A i \in Inst :
             (conn_initialized'[i] /\ ~conn_initialized[i])
                => /\ start.pc = "init_wait" /\ start.cur = i
                   /\ slot[i][start.id].res.kind = "result"
                   /\ request_id[i] = 1
                   /\ start'.pc = "tools_send"
       /\ start.pc \in ListSendPcs => conn_initialized[start.cur]
       /\ (start'.pc # start.pc /\ start'.pc \in ListSendPcs)
             => \/ start.pc = "init_wait" /\ start'.pc = "tools_send"
                \/ start.pc \in {"tools_send", "tools_wait"} /\ start'.pc = "resources_send"
                \/ start.pc \in {"resources_send", "resources_wait"} /\ start'.pc = "prompts_send"
       /\ start'.pc = "return_conn" => start.pc \in {"return_conn", "prompts_send", "prompts_wait"}
       /\ server_conn' # server_conn
             => /\ start.pc = "return_conn" /\ server_conn' = start.cur
                /\ conn_initialized[server_conn']
                /\ request_id[server_conn'] = 4
       /\ \A i \in Inst :
             (request_id'[i] # request_id[i] /\ start.pc \notin ListSendPcs /\ start.pc # "spawn")
                => i = server_conn /\ conn_initialized[i]
       /\ server_conn # 0 => conn_initialized[server_conn]
      ]_vars

\* C33, its case: a connection went through the handshake, is registered, and
\* a proxied call is waiting on it.
C33_ProxiedAfterHandshake ==
    /\ server_conn # 0
    /\ conn_initialized[server_conn]
    /\ request_id[server_conn] = 5
    /\ slot[server_conn][5].st = "awaiting"
    /\ start.pc = "idle"

\* C34: the reader task survives bad input: a line that is no message is
\* skipped and the task reads on, so that a reply that follows still resolves
\* its pending request; the task ends only at end of file, when the process
\* has gone, or by cancellation.
C34_ReaderSurvivesBadInput ==
    [][\A i \in Inst :
          /\ (reader[i] = "running" /\ reader'[i] = "ended")
                => (stdout[i] = <<>> /\ proc[i] \in {"broken", "exited"})
          /\ (reader[i] = "running" /\ stdout[i] # <<>> /\ stdout'[i] = Tail(stdout[i])
                /\ Head(stdout[i]).kind \in MalformedKinds)
                => (reader'[i] = "running" /\ slot' = slot)
      ]_vars

(***************************************************************************)
(* Properties of the router.                                               *)
(***************************************************************************)
\* C4: calling the exposed identity of a descriptor that a registered backend
\* advertised forwards the call to that backend with exactly the original
\* name or URI, whatever the original name.
C4_RoundTrip ==
    /\ \A h \in ClientSlots :
          handler[h].pc = "proxy_wait" =>
              \A o \in handler[h].ghost.owners : handler[h].fwd = o
    /\ last.ghost.ready0 => \A o \in last.ghost.owners : last.fwd = o

\* C5: two distinct connections that advertise a tool of the same original
\* name have two distinct exposed names in the directory, and routing each
\* exposed name finds the connection that advertised it.
C5_SameNameRoutesToOwner ==
    \A i \in 1..Len(server_connections) : \A j \in 1..Len(server_connections) :
        i # j =>
            \A x \in Range(server_connections[i].adv.tools)
                        \cap Range(server_connections[j].adv.tools) :
                LET ni == ExposedName(server_connections[i].name, x)
                    nj == ExposedName(server_connections[j].name, x) IN
                /\ ni # nj
                /\ InSeq(ni, tools)
                /\ InSeq(nj, tools)
                /\ Route("tools/call", ni) = i

\* C6: with pairwise distinct connection names, no two descriptors advertised
\* by different connections receive the same exposed tool name, prompt name
\* or resource URI.
C6_ExposedNamesUnique ==
    \A i \in 1..Len(server_connections) : \A j \in 1..Len(server_connections) :
        i # j =>
            LET ci == server_connections[i]
                cj == server_connections[j] IN
            /\ ci.name # cj.name
            /\ Range(ci.tools) \cap Range(cj.tools) = {}
            /\ Range(ci.prompts) \cap Range(cj.prompts) = {}
            /\ Range(ci.resources) \cap Range(cj.resources) = {}

\* C7: while the gateway is not ready, a request (with an id) of one of the six
\* tools/resources/prompts methods is answered with the error -32603, never
\* with a result, and nothing is sent to a backend for it.
C7_NotReadyRejected ==
    /\ \A h \in ClientSlots :
          (handler[h].pc # "idle" /\ handler[h].msg.method \in ListMethods \cup CallMethods)
              => handler[h].ghost.ready0
    /\ ( /\ Routed(last.msg)
         /\ last.msg.method \in ListMethods \cup CallMethods
         /\ last.msg.id # 0
         /\ ~last.ghost.ready0 )
       => ( /\ last.reply = ErrorReply(last.msg.id, INTERNAL_ERROR)
            /\ last.fwd = NoFwd )

\* C7, its case: after initialize registered a backend, and before any
\* initialized notification, a call of one of its exposed tools was refused.
C7_RoutableCallRefused ==
    /\ last.msg.method = "tools/call"
    /\ last.msg.id # 0
    /\ ~last.ghost.ready0
    /\ last.ghost.owners # {}
    /\ last.reply.kind = "error"

\* C8: the gateway cannot become ready without an initialize request, and as
\* long as no initialize request was sent a tools/call yields no result.
C8_InitializeFirst ==
    /\ initialized => initializeReceived
    /\ (last.msg.method = "tools/call" /\ ~last.ghost.init0) => last.reply.kind # "result"

\* C9: once the initialized notification is processed the gateway is ready and
\* stays ready, and a tools/list, resources/list or prompts/list request gets a
\* result whose list is the directory of that category as it stands.
C9_ReadyListsDirectory ==
    /\ initializedProcessed => initialized
    /\ ( /\ initializedProcessed
         /\ Routed(last.msg)
         /\ last.msg.method \in ListMethods
         /\ last.msg.id # 0 )
       => last.reply =
            ResultReply(last.msg.id,
                        CASE last.msg.method = "tools/list" -> tools
                          [] last.msg.method = "resources/list" -> resources
                          [] OTHER -> prompts)

\* C9, its case: after initialize and initialized a tools/list request got the
\* directory with the gateway's own tools and a backend's.
C9_ListAfterHandshake ==
    /\ initializeReceived
    /\ initializedProcessed
    /\ last.msg.method = "tools/list"
    /\ last.reply.kind = "result"
    /\ Len(last.reply.payload) > Len(BuiltinTools)
    /\ server_connections # <<>>

\* C10: every request that carries an id gets one reply, and the reply carries
\* the id of the request, whatever the method and the state of the router.
C10_OneReplySameId ==
    (last.msg.form = "ok" /\ last.msg.id # 0)
        => (last.reply.kind # "none" /\ last.reply.id = last.msg.id)

\* C11: a notification (a JSON-RPC message without an id) never produces a
\* reply, whatever its method, supported or unknown, and whatever the state of
\* the router; over HTTP it is answered 204 without a body.
C11_NotificationsSilent ==
    (last.msg.form = "ok" /\ last.msg.id = 0) => last.reply = NoReply

\* C12: every reply to a request that carries an id has exactly one of the
\* members "result" and "error", never both and never neither, whether the
\* handler succeeded, raised, or the method is unknown, on both transports.
C12_ResultXorError ==
    (Routed(last.msg) /\ last.msg.id # 0 /\ last.reply # NoReply)
        => /\ last.reply.kind \in {"result", "error"}
           /\ (last.reply.kind = "result") # (last.reply.code # 0)

\* C12, its case: over HTTP a proxied call that failed at its backend was
\* answered with an error and no result.
C12_ProxyFailureIsErrorOnly ==
    /\ transport = "http"
    /\ last.msg.method \in CallMethods
    /\ last.fwd # NoFwd
    /\ last.reply = ErrorReply(last.msg.id, INTERNAL_ERROR)
    /\ last.msg.id # 0

\* C13: a request whose method the gateway does not support is answered with
\* the error -32601 under the id of the request, in every state of the router
\* (before initialize too), and the router state is left as it was.
C13_UnknownMethodNotFound ==
    [][(last'.msg.method = "unknown/method" /\ last'.msg.id # 0)
          => /\ last'.reply = ErrorReply(last'.msg.id, METHOD_NOT_FOUND)
             /\ last'.fwd = NoFwd
             /\ UNCHANGED <<cfgVars, dirVars, flagVars, health_check_task, handler,
                            nStarts, connVars>>
      ]_vars

\* C13, its case: before any initialize and any initialized, a request of an
\* unknown method was answered with -32601.
C13_UnknownBeforeInitialize ==
    /\ last.msg.method = "unknown/method"
    /\ last.msg.id # 0
    /\ ~last.ghost.init0
    /\ ~last.ghost.ready0
    /\ last.reply.code = METHOD_NOT_FOUND

C19_ExitedBackendReconnectedOnce ==
    [][\A j \in 1..Len(server_connections) :
          ( /\ handler[0].pc = "idle"
            /\ handler'[0].pc # "idle"
            /\ handler'[0].msg = MonitorMsg(server_connections[j].name)
            /\ server_connections[j].process = "exited" )
          => /\ handler'[0].pc = "reconnecting"
             /\ nStarts' = nStarts + 1
             /\ \E k \in 1..Len(mcp_servers) :
                   /\ mcp_servers[k] = server_connections[j].name
                   /\ \A n \in 1..Len(handler'[0].tasks) :
                         (handler'[0].tasks[n].stage = "spawn") <=> (n = k)
      ]_vars

\* C20: once initialize has started the health monitor, every configured
\* backend without a live connection, one whose first connection failed
\* included, is one the next monitoring cycle makes a connection attempt for.
C20_MonitorRetriesUnconnected ==
    (health_check_task /\ handler[0].pc = "idle" /\ nStarts < MaxStarts)
        => \A k \in 1..Len(mcp_servers) :
              (\A j \in Registered(mcp_servers[k]) : server_connections[j].process # "alive")
                  => \E j \in Registered(mcp_servers[k]) : ENABLED HealthMonitor(j)

\* C15: a request (a JSON message with an id) without the "jsonrpc" member is
\* answered with the error -32600 and never reaches a method handler, on the
\* line-stream transport and on HTTP alike.
C15_MissingJsonrpcRejected ==
    (last.msg.form = "no_jsonrpc" /\ last.msg.id # 0)
        => /\ last.reply = ErrorReply(0, INVALID_REQUEST)
           /\ ~Routed(last.msg)

\* C23: at startup every configured backend gets its own connection attempt,
\* and the failure of some (None returned, or an exception) neither aborts nor
\* skips the others: when initialize completes every attempt has ended, every
\* backend whose handshake succeeded is in the registry with the connection of
\* that handshake, and nothing else was added, in whatever order they ended.
C23_StartupIndependent ==
    [][\A h \in ClientSlots :
          (handler[h].pc = "starting" /\ handler'[h].pc = "idle")
          => LET t == handler[h].tasks IN
             /\ Len(t) = Len(mcp_servers)
             /\ \A k \in 1..Len(t) :
                   /\ t[k].conn.name = mcp_servers[k]
                   /\ t[k].stage \in {"ok", "failed", "raised"}
                   /\ t[k].stage = "ok" => InSeq(t[k].conn, server_connections')
             /\ \A j \in 1..Len(server_connections') :
                   \/ \E k \in 1..Len(t) :
                         t[k].stage = "ok" /\ t[k].conn = server_connections'[j]
                   \/ /\ InSeq(server_connections'[j], server_connections)
                      /\ \A k \in 1..Len(t) :
                            t[k].conn.name = server_connections'[j].name => t[k].stage # "ok"
      ]_vars

\* C23, its case: of two configured backends the first failed, and initialize
\* returned with the second alone in the registry.
C23_SecondAloneRegistered ==
    /\ Len(mcp_servers) = 2
    /\ last.msg.method = "initialize"
    /\ last.reply.kind = "result"
    /\ Len(server_connections) = 1
    /\ server_connections[1].name = mcp_servers[2]
    /\ nStarts = 2

\* the number of times x is listed in xs
Occurrences(x, xs) == Cardinality({k \in 1..Len(xs) : xs[k] = x})

\* the descriptors of one category held by the connections of a registry, in
\* the order of the registry
RECURSIVE RegistryDescriptors(_, _)
RegistryDescriptors(reg, cat) ==
    IF reg = <<>> THEN <<>> ELSE Head(reg)[cat] \o RegistryDescriptors(Tail(reg), cat)

\* the same descriptors, each as often, in whatever order
SameListing(xs, ys) ==
    \A x \in Range(xs) \cup Range(ys) : Occurrences(x, xs) = Occurrences(x, ys)

\* no connection attempt is under way
NoAttemptUnderWay == \A h \in Slots : handler[h].pc \notin {"starting", "reconnecting"}

\* the part of a list of the directory that follows the gateway's own
\* descriptors (installed by load_mcp_config when it reads a configuration)
AfterOwn(dir, own) ==
    IF config_loaded THEN SubSeq(dir, Len(own) + 1, Len(dir)) ELSE dir

\* C24: after any sequence of connections, reconnections and failed attempts,
\* each of the three lists of the directory is the gateway's own descriptors
\* followed by the descriptors of the connections now in the registry: none of
\* a superseded connection is left and none is listed twice.
C24_DirectoryRebuilt ==
    NoAttemptUnderWay =>
        /\ config_loaded => /\ StartsWith(tools, BuiltinTools)
                            /\ StartsWith(resources, BuiltinResources)
                            /\ StartsWith(prompts, BuiltinPrompts)
        /\ SameListing(AfterOwn(tools, BuiltinTools),
                       RegistryDescriptors(server_connections, "tools"))
        /\ SameListing(AfterOwn(resources, BuiltinResources),
                       RegistryDescriptors(server_connections, "resources"))
        /\ SameListing(AfterOwn(prompts, BuiltinPrompts),
                       RegistryDescriptors(server_connections, "prompts"))

\* the list the directory keeps for a category; it keeps none for logging
Listed(cat) ==
    CASE cat = "tools" -> tools
      [] cat = "resources" -> resources
      [] cat = "prompts" -> prompts
      [] OTHER -> <<>>

\* the capability object of an initialize result declares the category
Declared(reply, cat) == InSeq(<<cat>>, reply.payload)

InitializeAnswered(x) == x.msg.method = "initialize" /\ x.reply.kind = "result"

\* C25, as stated: the capability object returned by initialize declares a
\* category, of tools, resources, prompts and logging, if and only if the
\* directory lists something for it.
C25_DeclaredIffListed ==
    InitializeAnswered(last) =>
        \A cat \in {"tools", "resources", "prompts", "logging"} :
            Declared(last.reply, cat) <=> Listed(cat) # <<>>

\* C25, amended: the capability object returned by initialize declares tools,
\* resources and prompts each if and only if the directory lists something for
\* it, and declares logging always; whether a list of the directory is empty
\* never changes afterwards, so a later tools/list agrees with the declaration.
C25_DeclaredIffListedButLogging ==
    [][/\ InitializeAnswered(last') =>
             /\ \A cat \in {"tools", "resources", "prompts"} :
                   Declared(last'.reply, cat) <=> Listed(cat)' # <<>>
             /\ Declared(last'.reply, "logging")
             /\ Len(last'.reply.payload) <= 4
       /\ (tools = <<>>) <=> (tools' = <<>>)
       /\ (resources = <<>>) <=> (resources' = <<>>)
       /\ (prompts = <<>>) <=> (prompts' = <<>>)
      ]_vars

\* C25, its case: without a configuration nothing is listed, and initialize
\* returned a capability object that declares logging alone; a tools/list that
\* follows returns the empty list.
C25_OnlyLoggingDeclared ==
    /\ ~config_loaded
    /\ InitializeAnswered(last)
    /\ last.reply.payload = << <<"logging">> >>
    /\ tools = <<>>

\* a name or URI the gateway defines for the method
OwnName(mt, n) ==
    CASE mt = "tools/call" -> InSeq(n, BuiltinTools)
      [] mt = "resources/read" -> InSeq(n, BuiltinResources)
      [] mt = "prompts/get" -> InSeq(n, BuiltinPrompts)
      [] OTHER -> FALSE

\* C26: a tools/call, resources/read or prompts/get of a name or URI the
\* gateway defines is answered by the gateway and never forwarded to a
\* backend, also when a registered backend's descriptor is exposed under that
\* very name; but for reconnect_server, which may fail, the answer is a result.
C26_BuiltinsFirst ==
    /\ \A h \in ClientSlots :
          handler[h].pc = "proxy_wait" => ~OwnName(handler[h].msg.method, handler[h].msg.name)
    /\ (Routed(last.msg) /\ last.ghost.ready0 /\ OwnName(last.msg.method, last.msg.name))
          => /\ last.fwd = NoFwd
             /\ (last.msg.id # 0 /\ last.msg.name # ReconnectTool)
                   => last.reply.kind = "result"

\* C26, its case: the backend "health" is registered with its tool "check"
\* exposed as health_check, and a call of health_check was answered by the
\* gateway with a result.
C26_ShadowedToolAnswered ==
    /\ last.msg.method = "tools/call"
    /\ last.msg.name = PureBuiltinTools[1]
    /\ last.ghost.ready0
    /\ last.ghost.owners # {}
    /\ last.reply.kind = "result"
    /\ last.fwd = NoFwd

\* the call asks for something that is neither the gateway's own nor a
\* descriptor a registered connection advertised
Unowned(m, g) ==
    /\ Routed(m)
    /\ m.method \in CallMethods
    /\ m.id # 0
    /\ g.ready0
    /\ ~OwnName(m.method, m.name)
    /\ g.owners = {}

\* C27: when the gateway is ready and the requested tool, prompt or resource
\* is neither the gateway's own nor owned by a registered connection, the
\* call is answered with the error that names it ("... not found: <name>"),
\* nothing is sent to a backend, and the gateway reads on.
C27_UnownedIsNotFound ==
    /\ \A h \in ClientSlots :
          handler[h].pc = "proxy_wait" => ~Unowned(handler[h].msg, handler[h].ghost)
    /\ Unowned(last.msg, last.ghost)
          => /\ last.reply = NotFound(last.msg)
             /\ last.fwd = NoFwd

\* C28: shutdown cancels the health monitor before it closes any connection,
\* and closes the registered connections one after another, in the order of
\* the registry: the reader task of each is cancelled, its process is
\* signalled and, if it does not exit on the signal, killed; when shutdown is
\* over the registry is empty and the process of every connection that was
\* registered has exited, whatever the health monitor was doing.
C28_ShutdownOrderly ==
    /\ cleanup.pc # "off" =>
          /\ handler[0].pc = "idle"
          /\ health_check_task => cleanup.monitor = "cancelled"
          /\ Len(cleanup.closed) = cleanup.at - 1
          /\ Len(cleanup.closed) <= Len(cleanup.registered)
          /\ \A k \in 1..Len(cleanup.closed) :
                LET d == cleanup.closed[k]
                    c == cleanup.registered[k] IN
                /\ d.name = c.name
                /\ d.reader = "cancelled"
                /\ d.process = "exited"
                /\ c.process = "alive" =>
                      d.signal = IF d.obeys THEN "terminate" ELSE "kill"
    /\ cleanup.pc = "done" =>
          /\ server_connections = <<>>
          /\ Len(cleanup.closed) = Len(cleanup.registered)

\* C28, its case: shutdown came while the health monitor was reconnecting a
\* backend; it is over, and a registered process that did not exit on the
\* signal was killed.
C28_ShutdownDuringReconnection ==
    /\ cleanup.pc = "done"
    /\ cleanup.busy
    /\ cleanup.monitor = "cancelled"
    /\ \E k \in 1..Len(cleanup.closed) : cleanup.closed[k].signal = "kill"
    /\ server_connections = <<>>

\* the requests being handled
Busy == {h \in ClientSlots : handler[h].pc # "idle"}

HealthCheckCalled(x) ==
    /\ Routed(x.msg)
    /\ x.msg.method = "tools/call"
    /\ x.msg.name = PureBuiltinTools[1]
    /\ x.msg.id # 0

\* C30, as stated: health_check called while the registry is empty returns a
\* result that reports connected_servers: 0, and no error.
C30_HealthCheckReportsZero ==
    (HealthCheckCalled(last) /\ server_connections = <<>>)
        => last.reply = ResultReply(last.msg.id, << <<"connected_servers", "0">> >>)

\* C30, amended: once the gateway is ready, health_check called while the
\* registry is empty returns a result that reports connected_servers: 0, and
\* no error.
C30_ReadyHealthCheckReportsZero ==
    (HealthCheckCalled(last) /\ last.ghost.ready0 /\ server_connections = <<>>)
        => last.reply = ResultReply(last.msg.id, << <<"connected_servers", "0">> >>)

\* C30, its case: a backend is configured and its connection failed; the
\* gateway is ready and health_check was answered with connected_servers: 0.
C30_NoBackendConnected ==
    /\ HealthCheckCalled(last)
    /\ last.ghost.ready0
    /\ mcp_servers # <<>>
    /\ nStarts > 0
    /\ server_connections = <<>>
    /\ last.reply.kind = "result"
    /\ last.reply.payload = << <<"connected_servers", "0">> >>

\* the connection a call was forwarded to advertised what the call asks for
ForwardedToOwner(fwd, g) ==
    fwd # NoFwd => \E o \in g.owners : o.conn = fwd.conn

\* C31: a tools/call, prompts/get or resources/read is forwarded only to a
\* connection whose advertised descriptors include one with exactly the
\* requested exposed name or URI; a URI that merely starts with the prefix of
\* a connection, and was not advertised by it, is not forwarded.
C31_ForwardedOnlyToAdvertiser ==
    /\ \A h \in ClientSlots :
          handler[h].pc = "proxy_wait" => ForwardedToOwner(handler[h].fwd, handler[h].ghost)
    /\ ForwardedToOwner(last.fwd, last.ghost)

\* C32: when a reconnection by the health monitor succeeds, the new connection
\* takes the place of the registry entry of that name; when it fails, the
\* registry has no entry of that name afterwards (the backend is neither
\* listed as connected nor routable) until a later retry succeeds.
C32_MonitorReplacesOrRemoves ==
    [][(handler[0].pc = "reconnecting" /\ handler'[0].pc = "idle")
          => \A k \in 1..Len(handler[0].tasks) :
                LET t == handler[0].tasks[k] IN
                /\ t.stage = "ok" =>
                      /\ Len(server_connections') = Len(server_connections)
                      /\ \A j \in 1..Len(server_connections) :
                            server_connections'[j] =
                               IF server_connections[j].name = t.conn.name
                               THEN t.conn ELSE server_connections[j]
                /\ t.stage \in {"failed", "raised"} =>
                      \A j \in 1..Len(server_connections') :
                          server_connections'[j].name # t.conn.name
      ]_vars

\* C35: a call of reconnect_server that started a connection attempt ends with
\* the answer "Successfully reconnected" exactly when the attempt established a
\* connection, and that connection is then the registry entry of the name; when
\* the attempt starts, the connection registered under the name has had its
\* reader cancelled and its process signalled. Without a server_name, or with
\* one that is not configured, the answer is an "Error:" text and the registry,
\* the directory and every process are as before.
C35_ReconnectReport ==
    [][\A h \in ClientSlots :
          /\ (handler[h].pc = "reconnecting" /\ handler'[h].pc = "idle") =>
                LET m == handler[h].msg
                    oks == {k \in 1..Len(handler[h].tasks) : handler[h].tasks[k].stage = "ok"} IN
                /\ last'.msg = m
                /\ m.id # 0 =>
                      ((last'.reply = ResultReply(m.id, ReconnectText("ok", m.arg))) <=> (oks # {}))
                /\ \A k \in oks :
                      /\ handler[h].tasks[k].conn.name = m.arg
                      /\ \A j \in 1..Len(server_connections') :
                            server_connections'[j].name = m.arg
                                => server_connections'[j] = handler[h].tasks[k].conn
                      /\ \E j \in 1..Len(server_connections') : server_connections'[j].name = m.arg
          /\ (handler[h].pc = "idle" /\ handler'[h].pc = "reconnecting") =>
                \A j \in 1..Len(server_connections') :
                    server_connections'[j].name = handler'[h].msg.arg
                        => server_connections'[j].process = "terminated"
          /\ ( /\ handler[h].pc = "idle"
               /\ last'.msg.form # "none"
               /\ last'.msg.method = "tools/call"
               /\ last'.msg.name = ReconnectTool
               /\ last'.ghost.ready0
               /\ last'.msg.arg \notin Range(mcp_servers) ) =>
                /\ last'.msg.id # 0 =>
                      last'.reply \in {ResultReply(last'.msg.id, ReconnectText(o, last'.msg.arg)) :
                                          o \in {"required", "unknown"}}
                /\ UNCHANGED <<server_connections, tools, resources, prompts, nStarts>>
                /\ \A k \in Slots : handler'[k] = handler[k]
      ]_vars

\* C35, its case: initialize connected the backend, reconnect_server then
\* replaced the connection and answered with the success text.
C35_ReconnectedAndReported ==
    /\ last.msg.name = ReconnectTool
    /\ last.msg.id # 0
    /\ last.reply = ResultReply(last.msg.id, ReconnectText("ok", last.msg.arg))
    /\ health_check_task
    /\ nStarts = 2
    /\ \E j \in 1..Len(server_connections) :
          server_connections[j].name = last.msg.arg /\ server_connections[j].process = "alive"

\* C36: shutdown can be repeated: a second call of cleanup finds the health
\* monitor over and no connection to close, and changes nothing of what the
\* first call left (the registry empty, the monitor cancelled, no request being
\* handled); and closing a connection whose process has already exited sends
\* no signal, fails nothing and goes on to the next connection.
C36_CleanupIdempotent ==
    [][ /\ cleanup'.runs = 2 =>
              /\ UNCHANGED <<server_connections, tools, resources, prompts,
                             health_check_task, handler, flagVars, cfgVars, connVars>>
              /\ server_connections = <<>>
              /\ cleanup'.registered = <<>>
              /\ cleanup'.closed = <<>>
              /\ cleanup'.monitor = (IF health_check_task THEN "cancelled" ELSE "none")
              /\ cleanup'.pc \in {"closing", "done"}
        /\ \A k \in 1..Len(cleanup'.closed) :
              cleanup'.registered[k].process = "exited"
                  => /\ cleanup'.closed[k].signal = "none"
                     /\ cleanup'.closed[k].process = "exited"
                     /\ cleanup'.at = Len(cleanup'.closed) + 1
      ]_vars

\* C36, its case: the first call closed a connection whose process had exited
\* and one that was alive; the second call is over.
C36_SecondCleanupOver ==
    /\ cleanup.runs = 2
    /\ cleanup.pc = "done"
    /\ \E k \in 1..Len(cleanup.previous) : cleanup.previous[k].signal = "none"
    /\ \E k \in 1..Len(cleanup.previous) : cleanup.previous[k].signal # "none"
    /\ server_connections = <<>>

\* C37: no backend process is orphaned: whenever a connection is stored in the
\* registry, by initialize, by reconnect_server or by the health monitor, the
\* connection it takes the place of has had its process signalled (or the
\* process has exited), so that a process the gateway spawned and did not
\* signal always belongs to the registered connection of its name or to an
\* attempt under way.
C37_NoOrphanedProcess ==
    [][\A h \in Slots :
          (handler[h].pc \in {"starting", "reconnecting"} /\ handler'[h].pc = "idle"
             /\ cleanup' = cleanup) =>
              \A k \in 1..Len(handler[h].tasks) :
                  handler[h].tasks[k].stage = "ok" =>
                      \A j \in Registered(handler[h].tasks[k].conn.name) :
                          server_connections[j].process # "alive"
      ]_vars

\* the health monitor cancels the reader and terminates the process of the
\* connection registered at position j
MonitorTearsDown(j) ==
    /\ handler'[0].pc = "reconnecting"
    /\ handler'[0].msg = MonitorMsg(server_connections[j].name)
    /\ handler[0].pc = "idle" \/ handler[0].msg # handler'[0].msg

\* C38: the health monitor tears down a connection only if the connection is
\* unhealthy when it is torn down; a connection that took the place of a listed
\* one while the monitor was reconnecting another backend, and is healthy, is
\* left alone.
C38_TeardownOnlyUnhealthy ==
    [][\A j \in 1..Len(server_connections) :
          MonitorTearsDown(j) => ~IsHealthy(server_connections[j])
      ]_vars

\* a registered connection whose process is alive and on which no request
\* completed during the last 60 s
IdleTooLong(c) == c.process = "alive" /\ ~c.fresh

\* C39: the heartbeat of a connection is set when a request sent to the backend
\* completes, whatever the outcome, and by nothing else: a registered
\* connection only gets a fresh heartbeat by being replaced with a newly
\* established one, whose list requests completed (with answers or with
\* timeouts). A registered connection that is alive but idle for 60 s is
\* judged unhealthy, and the monitoring cycle that comes next terminates its
\* process and makes a connection attempt for it before the cycle ends.
C39_IdleConnectionReconnected ==
    [][ /\ \A j \in 1..Len(server_connections) :
              /\ (j <= Len(server_connections') /\ ~server_connections[j].fresh
                     /\ server_connections'[j].fresh)
                    => \E h \in Slots : \E k \in 1..Len(handler[h].tasks) :
                          /\ handler[h].tasks[k].stage = "ok"
                          /\ server_connections'[j] = handler[h].tasks[k].conn
              /\ IdleTooLong(server_connections[j]) => ~IsHealthy(server_connections[j])
              /\ (IdleTooLong(server_connections[j]) /\ handler[0].pc = "idle"
                     /\ handler'[0].pc # "idle")
                    => /\ handler'[0].pc = "reconnecting"
                       /\ handler'[0].tasks[ConfigOf(server_connections[j].name)].stage
                              \in {"spawn", "queued"}
        /\ \A k \in 1..Len(handler[0].tasks) :
              /\ handler[0].tasks[k].stage = "queued"
                    => /\ handler'[0].pc = "reconnecting"
                       /\ handler'[0].tasks[k].stage \in {"spawn", "queued"}
              /\ (handler'[0].pc = "reconnecting" /\ handler'[0].tasks[k].stage = "spawn"
                     /\ (handler[0].pc = "idle" \/ handler[0].tasks[k].stage = "queued"))
                    => \A j \in 1..Len(server_connections') :
                          server_connections'[j].name = handler'[0].tasks[k].conn.name
                              => server_connections'[j].process = "terminated"
      ]_vars

\* C40: however many initialize requests are handled, one health monitor task
\* is created at most, by the first initialize that returns; the task is kept
\* from then on and the monitor is at work only while it exists and shutdown
\* has not cancelled it; an error in a cycle is logged and the loop sleeps
\* again: only shutdown ends it.
C40_OneMonitorTask ==
    [][ /\ monitor_tasks' <= 1
        /\ health_check_task' <=> (monitor_tasks' = 1)
        /\ health_check_task => health_check_task'
        /\ (~health_check_task /\ health_check_task')
              => \E h \in ClientSlots : /\ handler[h].pc = "starting"
                                        /\ handler[h].msg.method = "initialize"
                                        /\ last'.msg = handler[h].msg
        /\ handler'[0].pc # "idle" => (health_check_task' /\ cleanup'.pc = "off")
        /\ (handler[0].pc = "error_logged" /\ cleanup'.pc = "off")
              => handler'[0].pc \in {"error_logged", "idle"}
        /\ (handler[0].pc # "idle" /\ handler'[0].pc = "idle" /\ cleanup'.pc # "off")
              => cleanup'.monitor = "cancelled"
        /\ (health_check_task /\ handler[0].pc = "idle" /\ cleanup.pc = "off"
               /\ \E j \in 1..Len(server_connections) :
                      TerminateRaisesOn(server_connections[j]))
              => \E j \in 1..Len(server_connections) : ENABLED MonitorRaises(j)
      ]_vars

\* C40, its case: a second initialize has returned, the one monitor task has
\* met an error in a cycle and is about to sleep again.
C40_SecondInitializeAndError ==
    /\ monitor_tasks = 1
    /\ Len(mcp_servers) = 1
    /\ nStarts = 2
    /\ ~initialized
    /\ handler[0].pc = "error_logged"
    /\ cleanup.pc = "off"


====
